---- MODULE Spec2Model ----
(***************************************************************************)
(* A model of the openplantbook_ref integration: the plant wizard          *)
(* (PlantSubentryFlowHandler), its validators, the re-authentication       *)
(* trigger, the stored plant records (subentries) of one parent entry and  *)
(* device removal.                                                         *)
(*                                                                         *)
(* Texts are sequences of one-character strings over a small alphabet.     *)
(* Python's None is the empty tuple and a present value v is <<v>>.        *)
(* A Python dict is a function whose DOMAIN is its key set.                *)
(***************************************************************************)
EXTENDS Integers, Sequences, FiniteSets, TLC

\* ------------------------------------------------------------------ bounds

\* Numeric form values range over 0..MaxVal.
MaxVal == 1

\* At most MaxRecords plant records are stored at a time.
MaxRecords == 2

\* At most MaxTasks re-authentication requests are created and not yet ended.
MaxTasks == 2

\* ------------------------------------------------------------ Python values

None == <<>>
Some(v) == <<v>>
IsNone(o) == o = <<>>
Val(o) == o[1]

EmptyDict == <<>>

\* ------------------------------------------------------------------- texts

LowerSeq ==
    <<"a", "b", "c", "d", "e", "f", "g", "h", "i", "j", "k", "l", "m",
      "n", "o", "p", "q", "r", "s", "t", "u", "v", "w", "x", "y", "z">>
UpperSeq ==
    <<"A", "B", "C", "D", "E", "F", "G", "H", "I", "J", "K", "L", "M",
      "N", "O", "P", "Q", "R", "S", "T", "U", "V", "W", "X", "Y", "Z">>
LowerLetters == {LowerSeq[i] : i \in 1..Len(LowerSeq)}
UpperLetters == {UpperSeq[i] : i \in 1..Len(UpperSeq)}
DigitChars == {"0", "1", "2", "3", "4", "5", "6", "7", "8", "9"}
SpaceChars == {" "}

IsAlpha(c) == c \in LowerLetters \cup UpperLetters
IsAlnum(c) == IsAlpha(c) \/ c \in DigitChars

\* str.lower() / str.upper() on one character
LowerChar(c) ==
    IF c \in UpperLetters
    THEN LowerSeq[CHOOSE i \in 1..Len(UpperSeq) : UpperSeq[i] = c] ELSE c
UpperChar(c) ==
    IF c \in LowerLetters
    THEN UpperSeq[CHOOSE i \in 1..Len(LowerSeq) : LowerSeq[i] = c] ELSE c

\* str.lower() / str.upper()
Lower(t) == [i \in 1..Len(t) |-> LowerChar(t[i])]
Upper(t) == [i \in 1..Len(t) |-> UpperChar(t[i])]

\* `sub in text`
IsSubstring(sub, text) ==
    \E i \in 0..(Len(text) - Len(sub)) : SubSeq(text, i + 1, i + Len(sub)) = sub

RECURSIVE LStrip(_)
LStrip(t) == IF t # <<>> /\ Head(t) \in SpaceChars THEN LStrip(Tail(t)) ELSE t

RECURSIVE RStrip(_)
RStrip(t) ==
    IF t # <<>> /\ t[Len(t)] \in SpaceChars
    THEN RStrip(SubSeq(t, 1, Len(t) - 1))
    ELSE t

\* str.strip()
Strip(t) == RStrip(LStrip(t))

\* Two characters beyond ASCII: U+01F0, the small letter j with caron, a
\* cased letter that has no capital of its own, and U+030C, the combining
\* caron, a mark with no case.
JCaron == "U+01F0"
CombiningCaron == "U+030C"

\* A character that has a case (Unicode's Cased property).
IsCased(c) == IsAlpha(c) \/ c = JCaron

\* The title-case mapping of one character: U+01F0 becomes J followed by
\* the combining caron.
TitleChar(c) == IF c = JCaron THEN <<"J", CombiningCaron>> ELSE <<UpperChar(c)>>

\* str.title(): a character is lower-cased when the character before it in
\* the text has a case, and title-cased otherwise.
RECURSIVE TitleFrom(_, _)
TitleFrom(t, i) ==
    IF i > Len(t) THEN <<>>
    ELSE (IF i > 1 /\ IsCased(t[i - 1]) THEN <<LowerChar(t[i])>> ELSE TitleChar(t[i]))
         \o TitleFrom(t, i + 1)
Title(t) == TitleFrom(t, 1)

\* _to_proper_case
ToProperCaseStripped(t) == Title(Strip(t))
ToProperCase(t) ==
    IF t = <<>> \/ Strip(t) = <<>> THEN t ELSE ToProperCaseStripped(t)

\* ------------------------------------------------------------ form fields

Dims == <<"light", "temp", "humidity", "moisture", "soil_ec">>
DimSet == {Dims[i] : i \in 1..Len(Dims)}

MinField ==
    [d \in DimSet |->
        CASE d = "light" -> "min_light" [] d = "temp" -> "min_temp"
          [] d = "humidity" -> "min_humidity" [] d = "moisture" -> "min_moisture"
          [] d = "soil_ec" -> "min_soil_ec"]
MaxField ==
    [d \in DimSet |->
        CASE d = "light" -> "max_light" [] d = "temp" -> "max_temp"
          [] d = "humidity" -> "max_humidity" [] d = "moisture" -> "max_moisture"
          [] d = "soil_ec" -> "max_soil_ec"]

RangeFields ==
    <<"min_light", "max_light", "min_temp", "max_temp", "min_humidity",
      "max_humidity", "min_moisture", "max_moisture", "min_soil_ec", "max_soil_ec">>
RangeFieldSet == {RangeFields[i] : i \in 1..Len(RangeFields)}

\* The form section a range field is entered in.
SectionOfDim ==
    [d \in DimSet |->
        CASE d = "light" -> "light_values_section"
          [] d = "temp" -> "temperature_values_section"
          [] d = "humidity" -> "humidity_values_section"
          [] d = "moisture" -> "moisture_values_section"
          [] d = "soil_ec" -> "soil_ec_values_section"]

GreaterCode ==
    [d \in DimSet |->
        CASE d = "light" -> "min_greater_than_max_light"
          [] d = "temp" -> "min_greater_than_max_temperature"
          [] d = "humidity" -> "min_greater_than_max_humidity"
          [] d = "moisture" -> "min_greater_than_max_moisture"
          [] d = "soil_ec" -> "min_greater_than_max_soil_ec"]
EqualsCode ==
    [d \in DimSet |->
        CASE d = "light" -> "min_equals_max_light"
          [] d = "temp" -> "min_equals_max_temperature"
          [] d = "humidity" -> "min_equals_max_humidity"
          [] d = "moisture" -> "min_equals_max_moisture"
          [] d = "soil_ec" -> "min_equals_max_soil_ec"]

RequiredCode ==
    [f \in RangeFieldSet |->
        CASE f = "min_light" -> "min_light_required"
          [] f = "max_light" -> "max_light_required"
          [] f = "min_temp" -> "min_temp_required"
          [] f = "max_temp" -> "max_temp_required"
          [] f = "min_humidity" -> "min_humidity_required"
          [] f = "max_humidity" -> "max_humidity_required"
          [] f = "min_moisture" -> "min_moisture_required"
          [] f = "max_moisture" -> "max_moisture_required"
          [] f = "min_soil_ec" -> "min_soil_ec_required"
          [] f = "max_soil_ec" -> "max_soil_ec_required"]

DimOfField ==
    [f \in RangeFieldSet |->
        CHOOSE d \in DimSet : f \in {MinField[d], MaxField[d]}]

\* ------------------------------------------------ create-path validation

\* _extract_plant_data: names and categories are case-normalized, the ten
\* range values are taken as submitted (None when the key is missing).
ExtractPlantData(ui) ==
    [friendly_name |-> ToProperCase(ui.friendly_name),
     scientific_name |-> ToProperCase(ui.scientific_name),
     common_name |-> ToProperCase(ui.common_name),
     categories |-> [i \in 1..Len(ui.categories) |-> ToProperCase(ui.categories[i])],
     min_light |-> ui.min_light, max_light |-> ui.max_light,
     min_temp |-> ui.min_temp, max_temp |-> ui.max_temp,
     min_humidity |-> ui.min_humidity, max_humidity |-> ui.max_humidity,
     min_moisture |-> ui.min_moisture, max_moisture |-> ui.max_moisture,
     min_soil_ec |-> ui.min_soil_ec, max_soil_ec |-> ui.max_soil_ec]

\* A variant of the chain that tests the scientific name first.
ValidateRequiredFieldsSwapped(pd) ==
    IF pd.scientific_name = <<>> THEN "names_section" :> "scientific_name_required"
    ELSE IF pd.friendly_name = <<>> THEN "names_section" :> "friendly_name_required"
    ELSE IF pd.common_name = <<>> THEN "names_section" :> "common_name_required"
    ELSE IF pd.categories = <<>> THEN "categories_section" :> "categories_required"
    ELSE IF IsNone(pd.min_light) THEN "light_values_section" :> "min_light_required"
    ELSE IF IsNone(pd.max_light) THEN "light_values_section" :> "max_light_required"
    ELSE IF IsNone(pd.min_temp) THEN "temperature_values_section" :> "min_temp_required"
    ELSE IF IsNone(pd.max_temp) THEN "temperature_values_section" :> "max_temp_required"
    ELSE IF IsNone(pd.min_humidity) THEN "humidity_values_section" :> "min_humidity_required"
    ELSE IF IsNone(pd.max_humidity) THEN "humidity_values_section" :> "max_humidity_required"
    ELSE IF IsNone(pd.min_moisture) THEN "moisture_values_section" :> "min_moisture_required"
    ELSE IF IsNone(pd.max_moisture) THEN "moisture_values_section" :> "max_moisture_required"
    ELSE IF IsNone(pd.min_soil_ec) THEN "soil_ec_values_section" :> "min_soil_ec_required"
    ELSE IF IsNone(pd.max_soil_ec) THEN "soil_ec_values_section" :> "max_soil_ec_required"
    ELSE EmptyDict

\* _validate_required_fields: one if/elif chain.
ValidateRequiredFields(pd) ==
    IF pd.friendly_name = <<>> THEN "names_section" :> "friendly_name_required"
    ELSE IF pd.scientific_name = <<>> THEN "names_section" :> "scientific_name_required"
    ELSE IF pd.common_name = <<>> THEN "names_section" :> "common_name_required"
    ELSE IF pd.categories = <<>> THEN "categories_section" :> "categories_required"
    ELSE IF IsNone(pd.min_light) THEN "light_values_section" :> "min_light_required"
    ELSE IF IsNone(pd.max_light) THEN "light_values_section" :> "max_light_required"
    ELSE IF IsNone(pd.min_temp) THEN "temperature_values_section" :> "min_temp_required"
    ELSE IF IsNone(pd.max_temp) THEN "temperature_values_section" :> "max_temp_required"
    ELSE IF IsNone(pd.min_humidity) THEN "humidity_values_section" :> "min_humidity_required"
    ELSE IF IsNone(pd.max_humidity) THEN "humidity_values_section" :> "max_humidity_required"
    ELSE IF IsNone(pd.min_moisture) THEN "moisture_values_section" :> "min_moisture_required"
    ELSE IF IsNone(pd.max_moisture) THEN "moisture_values_section" :> "max_moisture_required"
    ELSE IF IsNone(pd.min_soil_ec) THEN "soil_ec_values_section" :> "min_soil_ec_required"
    ELSE IF IsNone(pd.max_soil_ec) THEN "soil_ec_values_section" :> "max_soil_ec_required"
    ELSE EmptyDict

\* The loop over validation_pairs with its two breaks; a pair is a tuple
\* <<min_val, max_val, field_type dimension, section_key>>.
RECURSIVE PairsLoopNoEquals(_)
PairsLoopNoEquals(pairs) ==
    IF pairs = <<>> THEN EmptyDict
    ELSE LET p == Head(pairs) IN
         IF ~IsNone(p[1]) /\ ~IsNone(p[2]) /\ Val(p[1]) > Val(p[2])
         THEN p[4] :> GreaterCode[p[3]]
         ELSE PairsLoopNoEquals(Tail(pairs))

RECURSIVE PairsLoop(_)
PairsLoop(pairs) ==
    IF pairs = <<>> THEN EmptyDict
    ELSE LET p == Head(pairs) IN
         IF ~IsNone(p[1]) /\ ~IsNone(p[2])
         THEN IF Val(p[1]) > Val(p[2]) THEN p[4] :> GreaterCode[p[3]]
              ELSE IF Val(p[1]) = Val(p[2]) THEN p[4] :> EqualsCode[p[3]]
              ELSE PairsLoop(Tail(pairs))
         ELSE PairsLoop(Tail(pairs))

\* _validate_min_max_pairs
ValidateMinMaxPairs(pd) ==
    PairsLoop([i \in 1..Len(Dims) |->
        <<pd[MinField[Dims[i]]], pd[MaxField[Dims[i]]], Dims[i], SectionOfDim[Dims[i]]>>])

\* _validate_plant_configuration
ValidatePlantConfigurationPairsOnly(ui) == ValidateMinMaxPairs(ExtractPlantData(ui))
ValidatePlantConfiguration(ui) ==
    LET plant_data == ExtractPlantData(ui)
        errors == ValidateRequiredFields(plant_data)
    IN  IF errors = EmptyDict
        THEN ValidateMinMaxPairs(plant_data) @@ errors
        ELSE errors

\* -------------------------------------------- reconfigure-path validation

\* _extract_section_data
ExtractSectionData(ui) ==
    [friendly_name |-> ToProperCase(ui.friendly_name),
     scientific_name |-> ToProperCase(ui.scientific_name),
     common_name |-> ToProperCase(ui.common_name),
     categories |-> [i \in 1..Len(ui.categories) |-> ToProperCase(ui.categories[i])],
     light_section |-> [min_light |-> ui.min_light, max_light |-> ui.max_light],
     temp_section |-> [min_temp |-> ui.min_temp, max_temp |-> ui.max_temp],
     humidity_section |-> [min_humidity |-> ui.min_humidity, max_humidity |-> ui.max_humidity],
     moisture_section |-> [min_moisture |-> ui.min_moisture, max_moisture |-> ui.max_moisture],
     soil_ec_section |-> [min_soil_ec |-> ui.min_soil_ec, max_soil_ec |-> ui.max_soil_ec]]

\* The key of section_data holding a dimension's sub-dict.
DataSectionOfDim ==
    [d \in DimSet |->
        CASE d = "light" -> "light_section" [] d = "temp" -> "temp_section"
          [] d = "humidity" -> "humidity_section" [] d = "moisture" -> "moisture_section"
          [] d = "soil_ec" -> "soil_ec_section"]

SectionValue(sd, f) == sd[DataSectionOfDim[DimOfField[f]]][f]

\* The loop over numeric_validations: the first None value returns.
RECURSIVE NumericLoop(_)
NumericLoop(checks) ==
    IF checks = <<>> THEN EmptyDict
    ELSE LET c == Head(checks) IN
         IF IsNone(c[1]) THEN c[2] :> c[3] ELSE NumericLoop(Tail(checks))

\* _validate_required_plant_fields: early returns, then the loop.
ValidateRequiredPlantFields(sd) ==
    IF sd.friendly_name = <<>> THEN "names_section" :> "friendly_name_required"
    ELSE IF sd.scientific_name = <<>> THEN "names_section" :> "scientific_name_required"
    ELSE IF sd.common_name = <<>> THEN "names_section" :> "common_name_required"
    ELSE IF sd.categories = <<>> THEN "categories_section" :> "categories_required"
    ELSE NumericLoop([i \in 1..Len(RangeFields) |->
            <<SectionValue(sd, RangeFields[i]),
              SectionOfDim[DimOfField[RangeFields[i]]],
              RequiredCode[RangeFields[i]]>>])

\* _validate_plant_min_max_pairs
ValidatePlantMinMaxPairsReversed(sd) ==
    PairsLoop([i \in 1..Len(Dims) |->
        LET d == Dims[Len(Dims) + 1 - i]
        IN  <<SectionValue(sd, MinField[d]), SectionValue(sd, MaxField[d]),
              d, SectionOfDim[d]>>])
ValidatePlantMinMaxPairs(sd) ==
    PairsLoop([i \in 1..Len(Dims) |->
        <<SectionValue(sd, MinField[Dims[i]]), SectionValue(sd, MaxField[Dims[i]]),
          Dims[i], SectionOfDim[Dims[i]]>>])

\* _validate_configure_plant_options_input
ValidateConfigurePlantOptionsInput(sd) ==
    LET errors == ValidateRequiredPlantFields(sd)
    IN  IF errors = EmptyDict
        THEN ValidatePlantMinMaxPairs(sd) @@ errors
        ELSE errors

\* ---------------------------------------------------------------- slugify

\* The slug of a text: lower-cased, every run of characters that are not
\* letters or digits replaced by one "_", leading and trailing "_" removed.
RECURSIVE SlugRuns(_, _)
SlugRuns(t, inRun) ==
    IF t = <<>> THEN <<>>
    ELSE LET c == LowerChar(Head(t)) IN
         IF IsAlnum(c) THEN <<c>> \o SlugRuns(Tail(t), FALSE)
         ELSE IF inRun THEN SlugRuns(Tail(t), TRUE)
         ELSE <<"_">> \o SlugRuns(Tail(t), TRUE)

RECURSIVE TrimUnderscores(_)
TrimUnderscores(t) ==
    IF t # <<>> /\ Head(t) = "_" THEN TrimUnderscores(Tail(t))
    ELSE IF t # <<>> /\ t[Len(t)] = "_" THEN TrimUnderscores(SubSeq(t, 1, Len(t) - 1))
    ELSE t

UnknownSlug == <<"u", "n", "k", "n", "o", "w", "n">>

\* homeassistant.util.slugify as imported by const.py: "" for an empty or
\* None text, "unknown" when nothing is left of a non-empty text.
Slugify(o) ==
    IF o = None \/ Val(o) = <<>> THEN <<>>
    ELSE LET slug == TrimUnderscores(SlugRuns(Val(o), FALSE))
         IN  IF slug = <<>> THEN UnknownSlug ELSE slug

UnnamedPlant == <<"u", "n", "n", "a", "m", "e", "d", "_", "p", "l", "a", "n", "t">>

\* dict.get(key): None for a missing key.  Dict values are None or <<text>>.
Get(d, k) == IF k \in DOMAIN d THEN d[k] ELSE None
Truthy(o) == o # None /\ Val(o) # <<>>

\* generate_device_id
GenerateDeviceId(plant_data) ==
    IF Truthy(Get(plant_data, "plant_id")) THEN Slugify(plant_data["plant_id"])
    ELSE IF Truthy(Get(plant_data, "scientific_name"))
         THEN Slugify(plant_data["scientific_name"])
    ELSE Slugify(IF "name" \in DOMAIN plant_data
                 THEN plant_data["name"] ELSE Some(UnnamedPlant))

\* --------------------------------------------------- the client wrapper

\* auth_indicators of _is_auth_error, in the order of the list.
AuthIndicators ==
    <<
      <<"u", "n", "a", "u", "t", "h", "o", "r", "i", "z", "e", "d">>,
      <<"a", "u", "t", "h", "e", "n", "t", "i", "c", "a", "t", "i", "o", "n">>,
      <<"i", "n", "v", "a", "l", "i", "d", " ", "c", "r", "e", "d", "e", "n", "t", "i", "a", "l", "s">>,
      <<"a", "c", "c", "e", "s", "s", " ", "d", "e", "n", "i", "e", "d">>,
      <<"f", "o", "r", "b", "i", "d", "d", "e", "n">>,
      <<"4", "0", "1">>,
      <<"4", "0", "3">>,
      <<"i", "n", "v", "a", "l", "i", "d", " ", "a", "p", "i", " ", "k", "e", "y">>,
      <<"i", "n", "v", "a", "l", "i", "d", " ", "c", "l", "i", "e", "n", "t">>,
      <<"t", "o", "k", "e", "n", " ", "e", "x", "p", "i", "r", "e", "d">>,
      <<"a", "u", "t", "h", "e", "n", "t", "i", "c", "a", "t", "i", "o", "n", " ", "f", "a", "i", "l", "e", "d">>,
      <<"w", "r", "o", "n", "g", " ", "c", "l", "i", "e", "n", "t", " ", "i", "d">>,
      <<"w", "r", "o", "n", "g", " ", "s", "e", "c", "r", "e", "t">>,
      <<"n", "o", " ", "p", "l", "a", "n", "t", "b", "o", "o", "k", " ", "t", "o", "k", "e", "n">>,
      <<"p", "e", "r", "m", "i", "s", "s", "i", "o", "n", " ", "d", "e", "n", "i", "e", "d">>,
      <<"w", "r", "o", "n", "g", " ", "c", "l", "i", "e", "n", "t", " ", "i", "d", " ", "o", "r", " ", "s", "e", "c", "r", "e", "t">>,
      <<"n", "o", " ", "t", "o", "k", "e", "n", " ", "a", "v", "a", "i", "l", "a", "b", "l", "e">>,
      <<"t", "o", "k", "e", "n", " ", "n", "o", "t", " ", "f", "o", "u", "n", "d">>,
      <<"i", "n", "v", "a", "l", "i", "d", " ", "t", "o", "k", "e", "n">>,
      <<"e", "x", "p", "i", "r", "e", "d", " ", "t", "o", "k", "e", "n">>
    >>

\* The loop of _is_auth_error over the indicators from position i on.
RECURSIVE AnyIndicatorFrom(_, _)
AnyIndicatorFrom(i, error_str) ==
    IF i > Len(AuthIndicators) THEN FALSE
    ELSE IF IsSubstring(AuthIndicators[i], error_str) THEN TRUE
    ELSE AnyIndicatorFrom(i + 1, error_str)

\* _is_auth_error; an exception is its type and its message text.
IsAuthErrorCaseSensitive(exception) ==
    IF exception.type = "PermissionError" THEN TRUE
    ELSE AnyIndicatorFrom(1, exception.message)
IsAuthError(exception) ==
    IF exception.type = "PermissionError" THEN TRUE
    ELSE AnyIndicatorFrom(1, Lower(exception.message))

\* ------------------------------------------------------ the plant catalog

\* The range keys of a detail record of the external catalog.
DetailRanges ==
    [min_light_lux |-> 0, max_light_lux |-> MaxVal,
     min_temp |-> 0, max_temp |-> MaxVal,
     min_env_humid |-> 0, max_env_humid |-> MaxVal,
     min_soil_moist |-> 0, max_soil_moist |-> MaxVal,
     min_soil_ec |-> 0, max_soil_ec |-> MaxVal]

\* A search result without range keys: its details are fetched on selection.
CandA ==
    [pid |-> <<"a">>, display_pid |-> <<"a">>, alias |-> <<"a", " ", "b">>,
     category |-> <<"b">>]

\* A search result that already carries its range keys.
CandB ==
    [pid |-> <<"b">>, display_pid |-> <<"b">>, alias |-> <<"b">>,
     category |-> <<"a">>] @@ DetailRanges

\* What the detail call returns for a plant id.
PlantDetails(pid) ==
    IF pid = CandA.pid
    THEN [image_url |-> "https://img/a.jpg"] @@ DetailRanges @@ CandA
    ELSE CandB

\* The lists a search can return: none, one or several results.
SearchResultLists == {<<>>, <<CandA>>, <<CandB>>, <<CandA, CandB>>}

\* dict.update(): the keys of `more` override.
DictUpdate(d, more) == more @@ d


\* ------------------------------------------------------------------ state

VARIABLES
    v_input,        \* the form submission handed to a validator
    v_out,          \* [op, errors]: the validator applied and the dict it returned
    sdk_available,  \* OPENPLANTBOOK_AVAILABLE
    entry_data,     \* the parent config entry's data
    subentries,     \* the parent entry's subentries, by subentry id
    flows,          \* per wizard session: the PlantSubentryFlowHandler and its last result
    reauth_tasks,   \* re-auth init tasks created by async_create_task, not yet started
    reauth_flows,   \* re-auth flows in progress for the parent entry
    setup,          \* the setup session: the PlantSensorConfigFlow and its last result
    hass_entry,     \* the parent entry as loaded: its state, hass.data[DOMAIN].get(entry_id),
                    \* the sensors added, the update listener and a reload it asked for
    api_log         \* per wizard session: which call of it failed authentication
                    \* with the credentials now stored, whether it called again
                    \* with credentials that had failed, and whether it created a
                    \* re-auth task

vars == <<v_input, v_out, sdk_available, entry_data, subentries, flows,
          reauth_tasks, reauth_flows, setup, hass_entry, api_log>>

\* ------------------------------------------------------- form submissions

NameTexts == {<<>>, <<" ">>, <<"a", " ", "B">>}
CategoryLists == {<<>>, <<<<"a">>>>, <<<<"b">>, <<"a">>>>}

OptVals == {None} \cup {Some(v) : v \in 0..MaxVal}

\* All ten range fields present, every min below its max.
BaseRanges ==
    [f \in RangeFieldSet |->
        IF f = MinField[DimOfField[f]] THEN Some(0) ELSE Some(MaxVal)]

SetDim(r, d, mn, mx) ==
    [f \in RangeFieldSet |->
        IF f = MinField[d] THEN mn ELSE IF f = MaxField[d] THEN mx ELSE r[f]]

\* Range assignments in which at most two dimensions differ from BaseRanges.
RangeInputs ==
    {SetDim(SetDim(BaseRanges, d1, a, b), d2, c, e) :
        d1 \in DimSet, d2 \in DimSet, a \in OptVals, b \in OptVals,
        c \in OptVals, e \in OptVals}

UserInput(fn, sn, cn, cats, r) ==
    [friendly_name |-> fn, scientific_name |-> sn, common_name |-> cn,
     categories |-> cats] @@ r

ValidateInputs ==
    {UserInput(fn, sn, cn, cats, r) :
        fn \in NameTexts, sn \in NameTexts, cn \in NameTexts,
        cats \in CategoryLists, r \in RangeInputs}

NoOutput == [op |-> "none", errors |-> EmptyDict]

\* ------------------------------------------------------ wizard sessions

Sessions == {"s1", "s2"}
FirstSession == "s1"

Secrets == {"secret1", "secret2"}

NoResult == [type |-> "none", step_id |-> "", reason |-> "", errors |-> EmptyDict]

\* PlantSubentryFlowHandler.__init__: a session slot with no flow, and the
\* fields of a freshly constructed handler.
NoFlow ==
    [source |-> "none", step |-> "none", subentry |-> 0, plant_name |-> None,
     search_results |-> <<>>, selected |-> None, result |-> NoResult,
     defaults |-> EmptyDict]

NewFlow(source) == [NoFlow EXCEPT !.source = source]

\* What one handler invocation has done so far: the handler's fields and
\* result, the re-auth tasks it created, the API calls it made, the entry it
\* asks the host to create or update, and whether an exception escaped.
Ctx(f) ==
    [f |-> f, tasks |-> 0, calls |-> <<>>, create |-> None, update |-> None,
     raised |-> FALSE]

\* The catalog key a range field of the form is prefilled from.
ParamMapping ==
    [f \in RangeFieldSet |->
        CASE f = "min_light" -> "min_light_lux" [] f = "max_light" -> "max_light_lux"
          [] f = "min_humidity" -> "min_env_humid" [] f = "max_humidity" -> "max_env_humid"
          [] f = "min_moisture" -> "min_soil_moist" [] f = "max_moisture" -> "max_soil_moist"
          [] OTHER -> f]

\* The catalog's category text as the list of categories the form offers.
CategoryDefaults(category) ==
    IF Strip(category) # <<>> THEN <<ToProperCase(Strip(category))>> ELSE <<>>

\* _get_form_defaults: the contents the configuration form is shown with,
\* taken from the selected plant or, on manual entry, from the plant name.
GetFormDefaults(f) ==
    IF f.selected # None
    THEN LET sel == Val(f.selected)
             sn == ToProperCase(IF "display_pid" \in DOMAIN sel THEN sel.display_pid
                                ELSE IF "alias" \in DOMAIN sel THEN sel.alias ELSE <<>>)
             cn == ToProperCase(IF "alias" \in DOMAIN sel THEN sel.alias
                                ELSE IF "common_name" \in DOMAIN sel
                                     THEN sel.common_name ELSE <<>>)
         IN  [friendly_name |-> IF sn # <<>> THEN sn ELSE cn,
              scientific_name |-> sn,
              common_name |-> cn,
              categories |-> IF "category" \in DOMAIN sel
                             THEN CategoryDefaults(sel.category) ELSE <<>>]
             @@ [fld \in RangeFieldSet |->
                    IF ParamMapping[fld] \in DOMAIN sel
                    THEN Some(sel[ParamMapping[fld]]) ELSE None]
    ELSE LET plant_name == ToProperCase(IF f.plant_name # None
                                        THEN Val(f.plant_name) ELSE <<>>)
         IN  [friendly_name |-> plant_name, scientific_name |-> plant_name,
              common_name |-> <<>>, categories |-> <<>>]
             @@ [fld \in RangeFieldSet |-> None]

\* _create_configure_plant_options_schema: the contents the reconfigure
\* form is shown with, taken from the stored record and, for a range value
\* the record lacks, from the catalog data stored with it.
ConfigurePlantOptionsDefaults(current_data) ==
    LET book == IF "plant_book_data" \in DOMAIN current_data
                THEN current_data.plant_book_data ELSE EmptyDict
        proper(o) == IF o = None THEN <<>> ELSE ToProperCase(Val(o))
    IN  [friendly_name |-> proper(current_data.friendly_name),
         scientific_name |-> ToProperCase(current_data.scientific_name),
         common_name |-> proper(current_data.common_name),
         categories |-> IF current_data.categories = None THEN <<>>
                        ELSE LET cats == Val(current_data.categories)
                             IN  [i \in 1..Len(cats) |-> ToProperCase(cats[i])]]
        @@ [fld \in RangeFieldSet |->
               IF current_data[fld] # None THEN current_data[fld]
               ELSE IF ParamMapping[fld] \in DOMAIN book
                    THEN Some(book[ParamMapping[fld]]) ELSE None]

\* The data_schema defaults of the form a step shows.
FormDefaults(f, step_id) ==
    CASE step_id = "user" ->
            [plant_name |-> IF f.plant_name # None THEN Val(f.plant_name) ELSE <<>>]
      [] step_id = "configure_plant" -> GetFormDefaults(f)
      [] step_id = "configure_plant_options" ->
            ConfigurePlantOptionsDefaults(subentries[f.subentry].data)
      [] OTHER -> EmptyDict

\* async_show_form
ShowForm(c, step_id, errors) ==
    [c EXCEPT !.f.step = step_id,
              !.f.defaults = FormDefaults(c.f, step_id),
              !.f.result = [type |-> "form", step_id |-> step_id, reason |-> "",
                            errors |-> errors]]

\* async_abort
AbortFlow(c, reason) ==
    [c EXCEPT !.f.step = "done",
              !.f.result = [type |-> "abort", step_id |-> "", reason |-> reason,
                            errors |-> EmptyDict]]

\* An exception leaves the step handler: the flow stays at its step.
Raise(c) ==
    [c EXCEPT !.raised = TRUE,
              !.f.result = [type |-> "exception", step_id |-> "", reason |-> "",
                            errors |-> EmptyDict]]

\* An exception raised by the external call `what` leaves the step handler.
RaiseFrom(c, what) == [Raise(c) EXCEPT !.f.result.reason = what]

ApiCall(c, op, outcome) ==
    [c EXCEPT !.calls = Append(@, [op |-> op, outcome |-> outcome])]

\* _is_reauth_flow_in_progress: looks at the flows the flow manager lists as
\* in progress; a task created and not yet started is not among them.
IsReauthFlowInProgressAlways == TRUE
IsReauthFlowInProgress == reauth_flows > 0

\* hass.async_create_task(flow.async_init(... SOURCE_REAUTH ...)), guarded by
\* the in-progress check.
TriggerReauthNever(c) == c
TriggerReauth(c) ==
    IF ~IsReauthFlowInProgress THEN [c EXCEPT !.tasks = @ + 1] ELSE c

\* _fetch_plant_details; dout is the outcome of the detail call.
FetchPlantDetails(c, dout) ==
    LET sel == c.f.selected IN
    IF sel = None \/ ~sdk_available THEN c
    ELSE IF "pid" \notin DOMAIN Val(sel) \/ Val(sel).pid = <<>> THEN c
    ELSE LET c1 == ApiCall(c, "detail", dout)
             merged == DictUpdate(Val(sel), PlantDetails(Val(sel).pid))
         IN  CASE dout = "ok" ->
                    \* _selected_plant is the dict held in _plant_search_results
                    [c1 EXCEPT !.f.selected = Some(merged),
                               !.f.search_results =
                                   [i \in 1..Len(@) |->
                                       IF @[i] = Val(sel) THEN merged ELSE @[i]]]
               [] dout = "empty" -> c1
               [] dout = "auth" -> TriggerReauth(c1)
               [] dout = "conn" -> c1
               [] OTHER -> RaiseFrom(c1, "detail")

ImageUrlOf(sel) == IF "image_url" \in DOMAIN sel THEN Some(sel.image_url) ELSE None

\* The success status of an image response.
HTTP_OK == 200

\* What a download can meet: the file is already there ("exists"), the
\* response has a success status ("ok") or another one ("status"), the
\* request times out, it fails with an OSError (a connection that cannot be
\* made, a file that cannot be written), or it fails with a network error
\* of the HTTP client that is no OSError (the server closes the connection,
\* the payload is cut short).
ImageOutcomes == {"ok", "exists", "status", "timeout", "oserror", "neterror"}

ResponseStatus(img) == IF img = "status" THEN 404 ELSE 200

\* What the request of the image and the writing of the file can come to.
NetOutcomes == ImageOutcomes \ {"exists"}

\* async_download_image: the path of the file, None for the failure signal
\* False, or an exception that `except (TimeoutError, OSError)` lets pass;
\* with that, whether a request was made and the files as it leaves them.
\* files maps the paths that exist to their content; net is the outcome of
\* the request and the write.
AsyncDownloadImageOverwrites(download_to, files, net) ==
    IF net \in {"timeout", "oserror"}
    THEN [raised |-> FALSE, file |-> None, requested |-> TRUE, files |-> files]
    ELSE IF net = "neterror"
    THEN [raised |-> TRUE, file |-> None, requested |-> TRUE, files |-> files]
    ELSE IF ResponseStatus(net) # HTTP_OK
    THEN [raised |-> FALSE, file |-> None, requested |-> TRUE, files |-> files]
    ELSE [raised |-> FALSE, file |-> Some(download_to), requested |-> TRUE,
          files |-> [p \in DOMAIN files \cup {download_to} |->
                        IF p = download_to THEN "data" ELSE files[p]]]
AsyncDownloadImage(download_to, files, net) ==
    IF download_to \in DOMAIN files
    THEN [raised |-> FALSE, file |-> Some(download_to), requested |-> FALSE,
          files |-> files]
    ELSE IF net \in {"timeout", "oserror"}
    THEN [raised |-> FALSE, file |-> None, requested |-> TRUE, files |-> files]
    ELSE IF net = "neterror"
    THEN [raised |-> TRUE, file |-> None, requested |-> TRUE, files |-> files]
    ELSE IF ResponseStatus(net) # HTTP_OK
    THEN [raised |-> FALSE, file |-> None, requested |-> TRUE, files |-> files]
    ELSE [raised |-> FALSE, file |-> Some(download_to), requested |-> TRUE,
          files |-> [p \in DOMAIN files \cup {download_to} |->
                        IF p = download_to THEN "data" ELSE files[p]]]

\* The files an outcome of the wizard's download stands for.
FilesOf(download_to, img) ==
    IF img = "exists" THEN [p \in {download_to} |-> "old"] ELSE EmptyDict

\* _handle_plant_image_download; img is the outcome of the download.  The
\* result is the device data and whether the download raised.
HandlePlantImageDownload(c, device_data, img) ==
    LET sel == c.f.selected
        skipped == [raised |-> FALSE, data |-> device_data]
    IN  IF sel = None THEN skipped
        ELSE IF ImageUrlOf(Val(sel)) = None THEN skipped
        ELSE IF ~entry_data.download_images THEN skipped
        ELSE LET downloaded_file ==
                     AsyncDownloadImage(
                         <<entry_data.download_path, Val(sel).image_url>>,
                         FilesOf(<<entry_data.download_path, Val(sel).image_url>>, img),
                         IF img = "exists" THEN "ok" ELSE img)
             IN  IF downloaded_file.raised THEN [raised |-> TRUE, data |-> device_data]
                 ELSE IF downloaded_file.file # None
                 THEN [raised |-> FALSE,
                       data |-> [entity_picture |-> <<"/local/", Val(sel).image_url>>]
                                @@ device_data]
                 ELSE skipped

\* async_create_entry(title=..., data=..., unique_id=device_id)
CreateEntryRequestNoUniqueId(title, data, device_id) ==
    [title |-> title, data |-> data, unique_id |-> None]
CreateEntryRequest(title, data, device_id) ==
    [title |-> title, data |-> data, unique_id |-> Some(device_id)]

OrNone(t) == IF t # <<>> THEN Some(t) ELSE None

\* _create_plant_entry
CreatePlantEntry(c, ui, img) ==
    LET plant_data == ExtractPlantData(ui)
        sel == c.f.selected
        pid_opt == IF sel # None
                   THEN (IF "pid" \in DOMAIN Val(sel) THEN Some(Val(sel).pid) ELSE None)
                   ELSE Some(plant_data.scientific_name)
        device_name == IF plant_data.friendly_name # <<>>
                       THEN plant_data.friendly_name
                       ELSE plant_data.scientific_name
        device_id == GenerateDeviceId(
                        [plant_id |-> pid_opt,
                         scientific_name |-> Some(plant_data.scientific_name),
                         name |-> Some(device_name)])
        ranges == [f \in RangeFieldSet |-> plant_data[f]]
        base == [name |-> device_name,
                 plant_id |-> pid_opt,
                 scientific_name |-> plant_data.scientific_name,
                 common_name |-> OrNone(plant_data.common_name),
                 categories |-> OrNone(plant_data.categories),
                 friendly_name |-> OrNone(plant_data.friendly_name)] @@ ranges
        with_book == IF sel # None
                     THEN [plant_book_data |-> Val(sel)] @@ base ELSE base
        download == HandlePlantImageDownload(c, with_book, img)
        device_data == download.data
    IN  IF download.raised THEN RaiseFrom(c, "image")
        ELSE
        [c EXCEPT
            !.create = Some(CreateEntryRequest(plant_data.scientific_name,
                                [device_id |-> device_id] @@ device_data,
                                device_id)),
            !.f.step = "done",
            !.f.result = [type |-> "create_entry", step_id |-> "", reason |-> "",
                          errors |-> EmptyDict]]

\* async_step_configure_plant: no check of a pending re-auth; the details
\* are fetched whenever the selected plant has no "min_light_lux" key.
StepConfigurePlant(c, ui, dout, img) ==
    LET c1 == IF c.f.selected # None /\ "min_light_lux" \notin DOMAIN Val(c.f.selected)
              THEN FetchPlantDetails(c, dout) ELSE c
    IN  IF c1.raised THEN c1
        ELSE IF ui # None
        THEN LET errors == ValidatePlantConfiguration(Val(ui))
             IN  IF errors = EmptyDict
                 THEN CreatePlantEntry(c1, Val(ui), img)
                 ELSE ShowForm(c1, "configure_plant", errors)
        ELSE ShowForm(c1, "configure_plant", EmptyDict)

SearchError == "base" :> "search_error"

\* async_step_search_plants; sout is the outcome of the search call.  The
\* steps it chains to run inside its try block.
StepSearchPlants(c, sout, dout) ==
    IF ~sdk_available THEN AbortFlow(c, "missing_dependency")
    ELSE LET c1 == ApiCall(c, "search", sout.kind) IN
         CASE sout.kind = "ok" ->
               IF sout.results = <<>>
               THEN ShowForm(c1, "no_results_found", EmptyDict)
               ELSE IF Len(sout.results) = 1
               THEN LET c2 == StepConfigurePlant(
                                [c1 EXCEPT !.f.selected = Some(sout.results[1])],
                                None, dout, "ok")
                    IN  IF c2.raised
                        THEN ShowForm([c2 EXCEPT !.raised = FALSE], "user", SearchError)
                        ELSE c2
               ELSE ShowForm([c1 EXCEPT !.f.search_results = sout.results],
                             "select_plant", EmptyDict)
           [] sout.kind = "auth" -> AbortFlow(TriggerReauth(c1), "reauth_required")
           [] OTHER -> ShowForm(c1, "user", SearchError)

\* async_step_user of the plant wizard; name is the submitted plant name or None.
StepUserKeepsFirstQuery(c, name, sout, dout) ==
    IF IsReauthFlowInProgress THEN AbortFlow(c, "reauth_required")
    ELSE IF name # None
    THEN IF Strip(Val(name)) = <<>>
         THEN ShowForm(c, "user", "base" :> "plant_name_required")
         ELSE StepSearchPlants(
                  IF c.f.plant_name = None
                  THEN [c EXCEPT !.f.plant_name = Some(Strip(Val(name)))] ELSE c,
                  sout, dout)
    ELSE ShowForm(c, "user", EmptyDict)
StepUser(c, name, sout, dout) ==
    IF IsReauthFlowInProgress THEN AbortFlow(c, "reauth_required")
    ELSE IF name # None
    THEN IF Strip(Val(name)) = <<>>
         THEN ShowForm(c, "user", "base" :> "plant_name_required")
         ELSE StepSearchPlants([c EXCEPT !.f.plant_name = Some(Strip(Val(name)))],
                               sout, dout)
    ELSE ShowForm(c, "user", EmptyDict)

\* async_step_no_results_found
StepNoResultsFoundSwapped(c, action, dout) ==
    IF action = "search_again"
    THEN StepConfigurePlant([c EXCEPT !.f.selected = None], None, dout, "ok")
    ELSE IF action = "manual_entry"
    THEN StepUser(c, None, [kind |-> "ok", results |-> <<>>], dout)
    ELSE ShowForm(c, "no_results_found", EmptyDict)
StepNoResultsFound(c, action, dout) ==
    IF action = "manual_entry"
    THEN StepConfigurePlant([c EXCEPT !.f.selected = None], None, dout, "ok")
    ELSE IF action = "search_again"
    THEN StepUser(c, None, [kind |-> "ok", results |-> <<>>], dout)
    ELSE ShowForm(c, "no_results_found", EmptyDict)

FindByPid(results, pid) ==
    LET hits == {i \in 1..Len(results) : Get(results[i], "pid") = pid}
    IN  IF hits = {} THEN None
        ELSE Some(results[CHOOSE i \in hits : \A j \in hits : i <= j])

\* async_step_select_plant; choice is "manual_entry", "search_again", "pid"
\* (with the chosen pid) or "none" (nothing chosen).
StepSelectPlantKeepsSelected(c, choice, dout) ==
    IF choice.kind = "manual_entry"
    THEN StepConfigurePlant(c, None, dout, "ok")
    ELSE IF choice.kind = "search_again"
    THEN StepUser(c, None, [kind |-> "ok", results |-> <<>>], dout)
    ELSE IF choice.kind = "pid"
    THEN LET found == FindByPid(c.f.search_results, choice.pid)
             c1 == [c EXCEPT !.f.selected = found]
         IN  IF found # None
             THEN StepConfigurePlant(c1, None, dout, "ok")
             ELSE ShowForm(c1, "select_plant", "base" :> "invalid_selection")
    ELSE ShowForm(c, "select_plant", "base" :> "no_plant_selected")
StepSelectPlant(c, choice, dout) ==
    IF choice.kind = "manual_entry"
    THEN StepConfigurePlant([c EXCEPT !.f.selected = None], None, dout, "ok")
    ELSE IF choice.kind = "search_again"
    THEN StepUser(c, None, [kind |-> "ok", results |-> <<>>], dout)
    ELSE IF choice.kind = "pid"
    THEN LET found == FindByPid(c.f.search_results, choice.pid)
             c1 == [c EXCEPT !.f.selected = found]
         IN  IF found # None
             THEN StepConfigurePlant(c1, None, dout, "ok")
             ELSE ShowForm(c1, "select_plant", "base" :> "invalid_selection")
    ELSE ShowForm(c, "select_plant", "base" :> "no_plant_selected")


\* ---------------------------------------------------------- reconfigure

SubentryIds == DOMAIN subentries

\* _create_updated_plant_data
CreateUpdatedPlantDataDerivesPlantId(sd, current_data) ==
    [name |-> IF sd.friendly_name # <<>> THEN sd.friendly_name
              ELSE sd.scientific_name,
     plant_id |-> Some(sd.scientific_name),
     scientific_name |-> sd.scientific_name,
     common_name |-> OrNone(sd.common_name),
     categories |-> OrNone(sd.categories),
     friendly_name |-> OrNone(sd.friendly_name)]
    @@ [f \in RangeFieldSet |-> SectionValue(sd, f)]
    @@ current_data
CreateUpdatedPlantDataClearsPlantId(sd, current_data) ==
    [name |-> IF sd.friendly_name # <<>> THEN sd.friendly_name
              ELSE sd.scientific_name,
     plant_id |-> None,
     scientific_name |-> sd.scientific_name,
     common_name |-> OrNone(sd.common_name),
     categories |-> OrNone(sd.categories),
     friendly_name |-> OrNone(sd.friendly_name)]
    @@ [f \in RangeFieldSet |-> SectionValue(sd, f)]
    @@ current_data
CreateUpdatedPlantData(sd, current_data) ==
    LET categories_list == sd.categories
        plant_id == IF Truthy(Get(current_data, "plant_id"))
                    THEN current_data.plant_id
                    ELSE Some(sd.scientific_name)
        device_name == IF sd.friendly_name # <<>> THEN sd.friendly_name
                       ELSE sd.scientific_name
    IN  [name |-> device_name,
         plant_id |-> plant_id,
         scientific_name |-> sd.scientific_name,
         common_name |-> OrNone(sd.common_name),
         categories |-> OrNone(categories_list),
         friendly_name |-> OrNone(sd.friendly_name)]
        @@ [f \in RangeFieldSet |-> SectionValue(sd, f)]
        @@ current_data

\* _handle_configure_plant_options_input
HandleWithoutValidation(c, ui, current_data) ==
    [c EXCEPT
        !.update = Some([subentry_id |-> c.f.subentry,
                         data |-> CreateUpdatedPlantData(ExtractSectionData(ui),
                                                         current_data)]),
        !.f.step = "done",
        !.f.result = [type |-> "abort", step_id |-> "",
                      reason |-> "reconfigure_successful", errors |-> EmptyDict]]
HandleWritesBeforeValidation(c, ui, current_data) ==
    LET section_data == ExtractSectionData(ui)
        errors == ValidateConfigurePlantOptionsInput(section_data)
        written == [c EXCEPT
                       !.update = Some([subentry_id |-> c.f.subentry,
                                        data |-> CreateUpdatedPlantData(section_data,
                                                                        current_data)])]
    IN  IF errors # EmptyDict
        THEN ShowForm(written, "configure_plant_options", errors)
        ELSE [written EXCEPT
                !.f.step = "done",
                !.f.result = [type |-> "abort", step_id |-> "",
                              reason |-> "reconfigure_successful",
                              errors |-> EmptyDict]]
HandleConfigurePlantOptionsInput(c, ui, current_data) ==
    LET section_data == ExtractSectionData(ui)
        errors == ValidateConfigurePlantOptionsInput(section_data)
    IN  IF errors # EmptyDict
        THEN ShowForm(c, "configure_plant_options", errors)
        ELSE [c EXCEPT
                !.update = Some([subentry_id |-> c.f.subentry,
                                 data |-> CreateUpdatedPlantData(section_data,
                                                                 current_data)]),
                !.f.step = "done",
                !.f.result = [type |-> "abort", step_id |-> "",
                              reason |-> "reconfigure_successful",
                              errors |-> EmptyDict]]

\* async_step_reconfigure / async_step_configure_plant_options
StepConfigurePlantOptionsGuarded(c, ui) ==
    IF c.f.source \notin {"reconfigure", "user"} THEN AbortFlow(c, "invalid_source")
    ELSE IF IsReauthFlowInProgress THEN AbortFlow(c, "reauth_required")
    ELSE IF c.f.source # "reconfigure" THEN AbortFlow(c, "invalid_source")
    ELSE IF c.f.subentry \notin SubentryIds THEN Raise(c)
    ELSE IF ui # None
    THEN HandleConfigurePlantOptionsInput(c, Val(ui), subentries[c.f.subentry].data)
    ELSE ShowForm(c, "configure_plant_options", EmptyDict)
StepConfigurePlantOptions(c, ui) ==
    IF c.f.source \notin {"reconfigure", "user"} THEN AbortFlow(c, "invalid_source")
    ELSE IF c.f.source # "reconfigure" /\ IsReauthFlowInProgress
    THEN AbortFlow(c, "reauth_required")
    ELSE IF c.f.source # "reconfigure" THEN AbortFlow(c, "invalid_source")
    \* _get_reconfigure_subentry raises when the subentry is gone
    ELSE IF c.f.subentry \notin SubentryIds THEN Raise(c)
    ELSE IF ui # None
    THEN HandleConfigurePlantOptionsInput(c, Val(ui), subentries[c.f.subentry].data)
    ELSE ShowForm(c, "configure_plant_options", EmptyDict)

\* ------------------------------------------------------------- the host

\* The id the host gives the next subentry.
FreeSubentryId ==
    CHOOSE id \in 1..MaxRecords :
        id \notin SubentryIds /\ \A j \in 1..(id - 1) : j \in SubentryIds

\* async_create_entry as finished by the host: a subentry whose unique_id
\* is already used by a subentry of the entry is refused (already_configured).
UniqueIdExists(req) ==
    /\ req.unique_id # None
    /\ \E i \in SubentryIds : subentries[i].unique_id = req.unique_id

AddSubentry(req) ==
    (FreeSubentryId :> [unique_id |-> req.unique_id, title |-> req.title,
                        data |-> req.data]) @@ subentries

\* async_update_and_abort: the subentry's data is replaced.
UpdateSubentry(upd) ==
    [subentries EXCEPT ![upd.subentry_id].data = upd.data]

\* A session that has made no call yet.
NoCalls == [auth_failed |-> "none", repeated |-> FALSE, scheduled |-> FALSE]

\* The session's call history after the calls of one handler invocation.
RECURSIVE LogCalls(_, _)
LogCalls(log, calls) ==
    IF calls = <<>> THEN log
    ELSE LET call == Head(calls)
             seen == [log EXCEPT !.repeated = @ \/ log.auth_failed # "none"]
         IN  LogCalls(IF call.outcome = "auth"
                      THEN [seen EXCEPT !.auth_failed = call.op] ELSE seen,
                      Tail(calls))

\* A flow that has ended is removed by the flow manager: its handler and the
\* fields it held are gone, its result is what the session's user has seen.
Ended(f) ==
    IF f.step = "done"
    THEN [NoFlow EXCEPT !.source = f.source, !.step = "done", !.result = f.result]
    ELSE f

\* What a handler invocation of session s leaves behind.
Commit(s, c) ==
    /\ reauth_tasks + reauth_flows + c.tasks <= MaxTasks
    /\ api_log' = [api_log EXCEPT ![s] =
                        [LogCalls(@, c.calls) EXCEPT !.scheduled = @ \/ c.tasks > 0]]
    /\ reauth_tasks' = reauth_tasks + c.tasks
    /\ IF c.create # None
       THEN IF UniqueIdExists(Val(c.create))
            THEN /\ flows' = [flows EXCEPT ![s] =
                                Ended(AbortFlow(c, "already_configured").f)]
                 /\ UNCHANGED subentries
            ELSE /\ Cardinality(SubentryIds) < MaxRecords
                 /\ flows' = [flows EXCEPT ![s] = Ended(c.f)]
                 /\ subentries' = AddSubentry(Val(c.create))
       ELSE IF c.update # None
       THEN /\ flows' = [flows EXCEPT ![s] = Ended(c.f)]
            /\ subentries' = UpdateSubentry(Val(c.update))
       ELSE /\ flows' = [flows EXCEPT ![s] = Ended(c.f)]
            /\ UNCHANGED subentries
    /\ UNCHANGED <<hass_entry, setup, v_input, v_out, sdk_available, entry_data, reauth_flows>>

\* --------------------------------------------------- wizard submissions

PlantNameInputs == {<<" ">>, <<"a", " ">>}

SearchOutcomes ==
    {[kind |-> "ok", results |-> r] : r \in SearchResultLists}
    \cup {[kind |-> k, results |-> <<>>] : k \in {"auth", "conn", "other"}}

DetailOutcomes == {"ok", "empty", "auth", "conn", "other"}

Choices ==
    {[kind |-> k, pid |-> <<>>] : k \in {"manual_entry", "search_again", "none"}}
    \cup {[kind |-> "pid", pid |-> p] : p \in {CandA.pid, CandB.pid, <<"1">>}}

\* The configuration forms a user submits in a wizard session: one that
\* passes validation, one without a friendly name and one whose light
\* minimum equals its maximum.
WizardInputs ==
    {UserInput(<<"a">>, <<"a", " ">>, <<"b">>, <<<<"a">>>>, BaseRanges),
     UserInput(<<>>, <<"a", " ">>, <<"b">>, <<<<"a">>>>, BaseRanges),
     UserInput(<<"a">>, <<"a", " ">>, <<"b">>, <<<<"a">>>>,
               SetDim(BaseRanges, "light", Some(0), Some(0)))}

\* The forms a user submits in a reconfigure session: one that keeps the
\* names a create session gives, one with another scientific name, and one
\* whose light minimum equals its maximum.
ReconfigureInputs ==
    {UserInput(<<"a">>, <<"a", " ">>, <<"b">>, <<<<"a">>>>, BaseRanges),
     UserInput(<<"a">>, <<"b", " ">>, <<"b">>, <<<<"a">>>>, BaseRanges),
     UserInput(<<"a">>, <<"a", " ">>, <<"b">>, <<<<"a">>>>,
               SetDim(BaseRanges, "light", Some(0), Some(0)))}

\* ------------------------------------------------------- wizard actions

\* The host starts a plant wizard: async_step_user without input.
StartWizard(s) ==
    /\ flows[s].step \in {"none", "done"}
    /\ \E c \in {StepUser(Ctx(NewFlow("user")), None,
                          [kind |-> "ok", results |-> <<>>], "ok")} :
          /\ flows' = [flows EXCEPT ![s] = Ended(c.f)]
          /\ api_log' = [api_log EXCEPT ![s] = NoCalls]
    /\ UNCHANGED <<hass_entry, setup, v_input, v_out, sdk_available, entry_data, subentries,
                   reauth_tasks, reauth_flows>>

\* The user submits the plant name form.
SubmitPlantName(s) ==
    /\ flows[s].step = "user"
    /\ \E name \in PlantNameInputs, sout \in SearchOutcomes, dout \in DetailOutcomes :
          Commit(s, StepUser(Ctx(flows[s]), Some(name), sout, dout))

\* The user answers the no-results form.
SubmitNoResults(s) ==
    /\ flows[s].step = "no_results_found"
    /\ \E action \in {"manual_entry", "search_again", ""}, dout \in DetailOutcomes :
          Commit(s, StepNoResultsFound(Ctx(flows[s]), action, dout))

\* The user answers the candidate selection form.
SubmitSelectPlant(s) ==
    /\ flows[s].step = "select_plant"
    /\ \E choice \in Choices, dout \in DetailOutcomes :
          Commit(s, StepSelectPlant(Ctx(flows[s]), choice, dout))

\* Whether a Configure submission of handler f makes the detail call, and
\* whether it can come to download an image.
FetchesDetails(f) ==
    f.selected # None /\ "min_light_lux" \notin DOMAIN Val(f.selected)
MayDownloadImage(f) ==
    f.selected # None /\ ("image_url" \in DOMAIN Val(f.selected) \/ FetchesDetails(f))

\* The user submits the plant configuration form.  The outcome of a call
\* the submission does not make is not chosen.
SubmitConfigurePlant(s) ==
    /\ flows[s].step = "configure_plant"
    /\ \E ui \in WizardInputs,
          dout \in IF FetchesDetails(flows[s]) THEN DetailOutcomes ELSE {"ok"},
          img \in IF MayDownloadImage(flows[s]) THEN ImageOutcomes ELSE {"ok"} :
          Commit(s, StepConfigurePlant(Ctx(flows[s]), Some(ui), dout, img))

\* The host starts a reconfigure of a stored plant record.
StartReconfigure(s) ==
    /\ flows[s].step \in {"none", "done"}
    /\ \E id \in SubentryIds :
          /\ flows' = [flows EXCEPT ![s] =
                Ended(StepConfigurePlantOptions(
                    Ctx([NewFlow("reconfigure") EXCEPT !.subentry = id]), None).f)]
          /\ api_log' = [api_log EXCEPT ![s] = NoCalls]
    /\ UNCHANGED <<hass_entry, setup, v_input, v_out, sdk_available, entry_data, subentries,
                   reauth_tasks, reauth_flows>>

\* The user submits the reconfigure form.
SubmitConfigurePlantOptions(s) ==
    /\ flows[s].step = "configure_plant_options"
    /\ \E ui \in ReconfigureInputs :
          Commit(s, StepConfigurePlantOptions(Ctx(flows[s]), Some(ui)))

\* The user closes the dialog: the handler and all it holds are dropped.
Abandon(s) ==
    /\ flows[s].step \notin {"none", "done"}
    /\ flows' = [flows EXCEPT ![s] =
          [NoFlow EXCEPT !.source = flows[s].source, !.step = "done",
                         !.result = [type |-> "abandoned", step_id |-> "",
                                     reason |-> "", errors |-> EmptyDict]]]
    /\ UNCHANGED <<hass_entry, setup, v_input, v_out, sdk_available, entry_data, subentries,
                   reauth_tasks, reauth_flows, api_log>>

\* The event loop starts a created re-auth task: flow.async_init puts the
\* re-auth flow among the flows in progress.
ReauthTaskStart ==
    /\ reauth_tasks > 0
    /\ reauth_tasks' = reauth_tasks - 1
    /\ reauth_flows' = reauth_flows + 1
    /\ UNCHANGED <<hass_entry, setup, v_input, v_out, sdk_available, entry_data, subentries, flows,
                   api_log>>

\* PlantSensorConfigFlow.async_step_user in re-auth context, credentials
\* accepted: the entry's credentials are replaced and the flow ends.
ReauthUpdateCredentials ==
    /\ reauth_flows > 0
    /\ \E secret \in Secrets :
          /\ entry_data' = [entry_data EXCEPT !.secret = secret]
          /\ api_log' = [s \in Sessions |->
                            IF secret # entry_data.secret
                            THEN [api_log[s] EXCEPT !.auth_failed = "none"]
                            ELSE api_log[s]]
    /\ reauth_flows' = reauth_flows - 1
    /\ UNCHANGED <<hass_entry, setup, v_input, v_out, sdk_available, subentries, flows, reauth_tasks>>

\* The user dismisses a re-auth flow.
ReauthAbandon ==
    /\ reauth_flows > 0
    /\ reauth_flows' = reauth_flows - 1
    /\ UNCHANGED <<hass_entry, setup, v_input, v_out, sdk_available, entry_data, subentries, flows,
                   reauth_tasks, api_log>>

DeviceIdentifiers == {<<"a">>, <<"b">>}

\* const.DOMAIN
DomainName == "openplantbook_ref"

\* The identifiers of a device: pairs of a domain and an id.  A device of
\* this integration has one identifier of its domain; the device may carry
\* identifiers of other integrations, or only those.
DeviceEntryIdentifiers ==
    {{<<DomainName, d>>} : d \in DeviceIdentifiers}
        \cup {{<<"other", <<"a">> >>}, {<<"other", <<"b">> >>, <<DomainName, <<"a">> >>}, {}}

\* async_remove_config_entry_device: what it returns, the subentries it
\* leaves, and the id of the subentry it removed (0 for none).
AsyncRemoveConfigEntryDeviceAnyDomain(subs, identifiers) ==
    IF identifiers = {}
    THEN [result |-> FALSE, subentries |-> subs, removed |-> 0]
    ELSE LET device_id == (CHOOSE idf \in identifiers : TRUE)[2]
             hits == {i \in DOMAIN subs : subs[i].data.device_id = device_id}
             first == CHOOSE i \in hits : \A j \in hits : i <= j
         IN  IF hits = {} THEN [result |-> FALSE, subentries |-> subs, removed |-> 0]
             ELSE [result |-> TRUE,
                   subentries |-> [i \in DOMAIN subs \ {first} |-> subs[i]],
                   removed |-> first]
AsyncRemoveConfigEntryDevice(subs, identifiers) ==
    LET own == {idf \in identifiers : idf[1] = DomainName}
    IN  IF own = {} \/ (CHOOSE idf \in own : TRUE)[2] = <<>>
        THEN [result |-> FALSE, subentries |-> subs, removed |-> 0]
        ELSE LET device_id == (CHOOSE idf \in own : TRUE)[2]
                 hits == {i \in DOMAIN subs : subs[i].data.device_id = device_id}
                 first == CHOOSE i \in hits : \A j \in hits : i <= j
             IN  IF hits = {} THEN [result |-> FALSE, subentries |-> subs, removed |-> 0]
                 ELSE [result |-> TRUE,
                       subentries |-> [i \in DOMAIN subs \ {first} |-> subs[i]],
                       removed |-> first]

\* A device is removed.  The id of a removed subentry is never issued
\* again, so a handler that still holds it holds the id of no subentry.
RemoveConfigEntryDevice ==
    /\ \E identifiers \in DeviceEntryIdentifiers :
          LET r == AsyncRemoveConfigEntryDevice(subentries, identifiers)
          IN  /\ subentries' = r.subentries
              /\ flows' = [s \in Sessions |->
                             IF r.removed # 0 /\ flows[s].subentry = r.removed
                             THEN [flows[s] EXCEPT !.subentry = 0]
                             ELSE flows[s]]
    /\ UNCHANGED <<hass_entry, setup, v_input, v_out, sdk_available, entry_data,
                   reauth_tasks, reauth_flows, api_log>>

\* No setup session: no PlantSensorConfigFlow exists.
NoSetup ==
    [source |-> "none", step |-> "none", data |-> None, created |-> None,
     result |-> [type |-> "none", step_id |-> "", reason |-> "", errors |-> EmptyDict]]

\* The parent entry before the host has set it up.
NotLoaded ==
    [state |-> "not_loaded", data |-> None, calls |-> <<>>, listener |-> FALSE,
     reload_pending |-> FALSE]

WizardInit ==
    /\ entry_data = [client_id |-> "client", secret |-> "secret1",
                     download_images |-> TRUE,
                     download_path |-> "www/images/plants/"]
    /\ subentries = <<>>
    /\ flows = [s \in Sessions |-> NoFlow]
    /\ reauth_tasks = 0
    /\ reauth_flows = 0
    /\ api_log = [s \in Sessions |-> NoCalls]
    /\ setup = NoSetup
    /\ hass_entry = NotLoaded

Init ==
    /\ sdk_available \in BOOLEAN
    /\ WizardInit
    /\ v_input = <<>>
    /\ v_out = NoOutput

\* The wizard sessions of one user, one after the other, with the re-auth
\* flows and device removals that happen meanwhile.
Next ==
    \/ StartWizard(FirstSession)
    \/ SubmitPlantName(FirstSession)
    \/ SubmitNoResults(FirstSession)
    \/ SubmitSelectPlant(FirstSession)
    \/ SubmitConfigurePlant(FirstSession)
    \/ StartReconfigure(FirstSession)
    \/ SubmitConfigurePlantOptions(FirstSession)
    \/ Abandon(FirstSession)
    \/ ReauthTaskStart
    \/ ReauthUpdateCredentials
    \/ ReauthAbandon
    \/ RemoveConfigEntryDevice

Spec == Init /\ [][Next]_vars

\* Wizard sessions side by side, from the plant name to the configuration
\* form, with the re-auth flows their authentication failures ask for.
SessionsNext ==
    \/ \E s \in Sessions : StartWizard(s)
    \/ \E s \in Sessions : SubmitPlantName(s)
    \/ \E s \in Sessions : SubmitNoResults(s)
    \/ \E s \in Sessions : SubmitSelectPlant(s)
    \/ \E s \in Sessions : Abandon(s)
    \/ ReauthTaskStart
    \/ ReauthUpdateCredentials
    \/ ReauthAbandon

SpecSessions == Init /\ [][SessionsNext]_vars


\* ------------------------------------------- the validators, applied alone

ApplyValidatePlantConfiguration ==
    /\ v_out = NoOutput
    /\ v_out' = [op |-> "_validate_plant_configuration",
                 errors |-> ValidatePlantConfiguration(v_input)]
    /\ UNCHANGED <<hass_entry, setup, v_input, sdk_available, entry_data, subentries, flows,
                   reauth_tasks, reauth_flows, api_log>>

ApplyValidateConfigurePlantOptionsInput ==
    /\ v_out = NoOutput
    /\ v_out' = [op |-> "_validate_configure_plant_options_input",
                 errors |-> ValidateConfigurePlantOptionsInput(ExtractSectionData(v_input))]
    /\ UNCHANGED <<hass_entry, setup, v_input, sdk_available, entry_data, subentries, flows,
                   reauth_tasks, reauth_flows, api_log>>

ApplyValidateMinMaxPairs ==
    /\ v_out = NoOutput
    /\ v_out' = [op |-> "_validate_min_max_pairs",
                 errors |-> ValidateMinMaxPairs(ExtractPlantData(v_input))]
    /\ UNCHANGED <<hass_entry, setup, v_input, sdk_available, entry_data, subentries, flows,
                   reauth_tasks, reauth_flows, api_log>>

ApplyValidatePlantMinMaxPairs ==
    /\ v_out = NoOutput
    /\ v_out' = [op |-> "_validate_plant_min_max_pairs",
                 errors |-> ValidatePlantMinMaxPairs(ExtractSectionData(v_input))]
    /\ UNCHANGED <<hass_entry, setup, v_input, sdk_available, entry_data, subentries, flows,
                   reauth_tasks, reauth_flows, api_log>>

ValidateInit ==
    /\ v_input \in ValidateInputs
    /\ v_out = NoOutput
    /\ sdk_available = TRUE
    /\ WizardInit

ValidateNext ==
    \/ ApplyValidatePlantConfiguration
    \/ ApplyValidateConfigurePlantOptionsInput
    \/ ApplyValidateMinMaxPairs
    \/ ApplyValidatePlantMinMaxPairs

SpecValidate == ValidateInit /\ [][ValidateNext]_vars

\* ------------------------------------------ the client wrapper, applied alone

\* get_api_client of a fresh wrapper: the client, or the exception it
\* raises; construct is the outcome of constructing the SDK client.
GetApiClient(construct) ==
    IF ~sdk_available THEN "ConfigEntryAuthFailed"
    ELSE IF construct = "error" THEN "Exception"
    ELSE "client"

\* PlantSensorConfigFlow.async_step_user with a submission: the credentials
\* step, in a setup flow (source "user") or a re-auth flow; configured says
\* whether an entry with this client id exists already.
CredentialsStepUserNoTest(source, ui, construct, configured) ==
    LET client_id == Strip(ui.client_id)
        secret == Strip(ui.secret)
        required == IF secret = <<>> THEN "base" :> "secret_required"
                    ELSE IF client_id = <<>> THEN "base" :> "client_id_required"
                    ELSE EmptyDict
        api == GetApiClient(construct)
        errors == required
    IN  IF errors # EmptyDict
        THEN [type |-> "form", step_id |-> "user", reason |-> "", errors |-> errors]
        ELSE IF source = "reauth"
        THEN [type |-> "abort", step_id |-> "", reason |-> "reauth_successful",
              errors |-> EmptyDict]
        ELSE IF configured
        THEN [type |-> "abort", step_id |-> "", reason |-> "already_configured",
              errors |-> EmptyDict]
        ELSE [type |-> "form", step_id |-> "image_config", reason |-> "",
              errors |-> EmptyDict]
CredentialsStepUser(source, ui, construct, configured) ==
    LET client_id == Strip(ui.client_id)
        secret == Strip(ui.secret)
        required == IF secret = <<>> THEN "base" :> "secret_required"
                    ELSE IF client_id = <<>> THEN "base" :> "client_id_required"
                    ELSE EmptyDict
        api == GetApiClient(construct)
        errors == IF required # EmptyDict THEN required
                  ELSE IF api = "ConfigEntryAuthFailed" THEN "base" :> "invalid_auth"
                  ELSE IF api # "client" THEN "base" :> "cannot_connect"
                  ELSE EmptyDict
    IN  IF errors # EmptyDict
        THEN [type |-> "form", step_id |-> "user", reason |-> "", errors |-> errors]
        ELSE IF source = "reauth"
        THEN [type |-> "abort", step_id |-> "", reason |-> "reauth_successful",
              errors |-> EmptyDict]
        ELSE IF configured
        THEN [type |-> "abort", step_id |-> "", reason |-> "already_configured",
              errors |-> EmptyDict]
        ELSE [type |-> "form", step_id |-> "image_config", reason |-> "",
              errors |-> EmptyDict]

\* Messages that contain no indicator in any letter case.
PlainMessages ==
    {
      <<"I", "n", "v", "a", "l", "i", "d", " ", "i", "n", "p", "u", "t", " ", "f", "o", "r", "m", "a", "t">>,
      <<>>,
      <<"t", "o", "k", "e", "n">>,
      <<"i", "n", "v", "a", "l", "i", "d">>,
      <<"4", "0", " ", "1">>,
      <<"w", "r", "o", "n", "g", " ", "c", "l", "i", "e", "n", "t">>,
      <<"e", "x", "p", "i", "r", "e", "d">>,
      <<"t", "o", "k", "e", "n", "e", "x", "p", "i", "r", "e", "d">>,
      <<"u", "n", " ", "a", "u", "t", "h", "o", "r", "i", "z", "e", "d">>,
      <<"C", "o", "n", "n", "e", "c", "t", "i", "o", "n", " ", "t", "i", "m", "e", "d", " ", "o", "u", "t">>
    }

\* Each indicator alone, inside a longer message, and in capitals.
IndicatorMessages ==
    UNION {{AuthIndicators[i],
            <<"E", "r", "r", ":", " ">> \o AuthIndicators[i] \o <<" ", "(", "x", ")">>,
            Upper(AuthIndicators[i])} : i \in 1..Len(AuthIndicators)}

ExceptionTypes == {"PermissionError", "ValueError", "Exception"}

ExceptionInputs ==
    [kind : {"exception"}, type : ExceptionTypes,
     message : PlainMessages \cup IndicatorMessages]

CredentialInputs ==
    [kind : {"credentials"}, source : {"user", "reauth"},
     client_id : {<<>>, <<" ">>, <<"a">>, <<" ", "a">>},
     secret : {<<>>, <<" ">>, <<"s">>},
     construct : {"ok", "error"}, configured : BOOLEAN]

ApplyIsAuthError ==
    /\ v_out = NoOutput
    /\ v_input.kind = "exception"
    /\ v_out' = [op |-> "_is_auth_error", errors |-> EmptyDict,
                 result |-> IsAuthError(v_input)]
    /\ UNCHANGED <<hass_entry, setup, v_input, sdk_available, entry_data, subentries, flows,
                   reauth_tasks, reauth_flows, api_log>>

ApplyGetApiClient ==
    /\ v_out = NoOutput
    /\ v_input.kind = "credentials"
    /\ v_out' = [op |-> "get_api_client", errors |-> EmptyDict,
                 result |-> GetApiClient(v_input.construct)]
    /\ UNCHANGED <<hass_entry, setup, v_input, sdk_available, entry_data, subentries, flows,
                   reauth_tasks, reauth_flows, api_log>>

ApplyCredentialsStepUser ==
    /\ v_out = NoOutput
    /\ v_input.kind = "credentials"
    /\ LET result == CredentialsStepUser(v_input.source, v_input,
                                         v_input.construct, v_input.configured)
       IN  v_out' = [op |-> "async_step_user", errors |-> result.errors,
                     result |-> result]
    /\ UNCHANGED <<hass_entry, setup, v_input, sdk_available, entry_data, subentries, flows,
                   reauth_tasks, reauth_flows, api_log>>

\* The text after which the wrapper quotes the failure it reclassifies.
AuthFailedPrefix ==
    <<"A", "u", "t", "h", "e", "n", "t", "i", "c", "a", "t", "i", "o", "n", " ", "f", "a", "i", "l", "e", "d", ":", " ">>

SdkNotAvailable ==
    <<"O", "p", "e", "n", "P", "l", "a", "n", "t", "B", "o", "o", "k", " ", "S", "D", "K", " ", "n", "o", "t", " ", "a", "v", "a", "i", "l", "a", "b", "l", "e">>

\* Outcomes of a call: a value returned or an exception raised; called says
\* whether the SDK's method was called at all.
Returned(value) ==
    [called |-> TRUE, raised |-> FALSE, type |-> "", message |-> <<>>, value |-> value]
Raised(called, type, message) ==
    [called |-> called, raised |-> TRUE, type |-> type, message |-> message,
     value |-> <<>>]

\* The body shared by async_plant_search and async_plant_detail_get: get
\* the client, call the SDK's method, whose outcome is sdk_outcome, and
\* reclassify the exception it raised.
WrappedCallDropsMessage(construct, sdk_outcome) ==
    IF GetApiClient(construct) # "client"
    THEN Raised(FALSE, GetApiClient(construct),
                IF sdk_available THEN <<>> ELSE SdkNotAvailable)
    ELSE IF sdk_outcome.raised
    THEN IF IsAuthError(sdk_outcome)
         THEN Raised(TRUE, "ConfigEntryAuthFailed", AuthFailedPrefix)
         ELSE Raised(TRUE, sdk_outcome.type, sdk_outcome.message)
    ELSE Returned(sdk_outcome.value)
WrappedCall(construct, sdk_outcome) ==
    IF GetApiClient(construct) # "client"
    THEN Raised(FALSE, GetApiClient(construct),
                IF sdk_available THEN <<>> ELSE SdkNotAvailable)
    ELSE IF sdk_outcome.raised
    THEN IF IsAuthError(sdk_outcome)
         THEN Raised(TRUE, "ConfigEntryAuthFailed",
                     AuthFailedPrefix \o sdk_outcome.message)
         ELSE Raised(TRUE, sdk_outcome.type, sdk_outcome.message)
    ELSE Returned(sdk_outcome.value)

AsyncPlantSearch(construct, sdk_outcome) == WrappedCall(construct, sdk_outcome)
AsyncPlantDetailGet(construct, sdk_outcome) == WrappedCall(construct, sdk_outcome)

\* What the SDK's method returns: lists of pids stand for any result.
ResultValues == {<<>>, <<"a">>, <<"a", "b">>}

SdkOutcomes ==
    {Returned(v) : v \in ResultValues}
        \cup {Raised(TRUE, e.type, e.message) : e \in ExceptionInputs}

CallInputs ==
    [kind : {"call"}, construct : {"ok", "error"}, outcome : SdkOutcomes]

ApplyAsyncPlantSearch ==
    /\ v_out = NoOutput
    /\ v_input.kind = "call"
    /\ v_out' = [op |-> "async_plant_search", errors |-> EmptyDict,
                 result |-> AsyncPlantSearch(v_input.construct, v_input.outcome)]
    /\ UNCHANGED <<hass_entry, setup, v_input, sdk_available, entry_data, subentries, flows,
                   reauth_tasks, reauth_flows, api_log>>

ApplyAsyncPlantDetailGet ==
    /\ v_out = NoOutput
    /\ v_input.kind = "call"
    /\ v_out' = [op |-> "async_plant_detail_get", errors |-> EmptyDict,
                 result |-> AsyncPlantDetailGet(v_input.construct, v_input.outcome)]
    /\ UNCHANGED <<hass_entry, setup, v_input, sdk_available, entry_data, subentries, flows,
                   reauth_tasks, reauth_flows, api_log>>

ApiInit ==
    /\ v_input \in ExceptionInputs \cup CredentialInputs \cup CallInputs
    /\ v_out = NoOutput
    /\ sdk_available \in BOOLEAN
    /\ WizardInit

ApiNext ==
    \/ ApplyIsAuthError
    \/ ApplyGetApiClient
    \/ ApplyCredentialsStepUser
    \/ ApplyAsyncPlantSearch
    \/ ApplyAsyncPlantDetailGet

SpecApi == ApiInit /\ [][ApiNext]_vars

\* ------------------------------------------------------ the setup session

\* The unique id of the parent entry that exists: the client id it was set
\* up with.
ParentUniqueId == <<"a">>

\* A step of the setup session returns the handler and the parent entry's
\* data as it leaves them.
SetupShowForm(st, ed, step_id, errors) ==
    [setup |-> [st EXCEPT !.step = step_id,
                          !.result = [type |-> "form", step_id |-> step_id,
                                      reason |-> "", errors |-> errors]],
     entry_data |-> ed]
SetupAbort(st, ed, reason) ==
    [setup |-> [st EXCEPT !.step = "done",
                          !.result = [type |-> "abort", step_id |-> "",
                                      reason |-> reason, errors |-> EmptyDict]],
     entry_data |-> ed]

\* PlantSensorConfigFlow.async_step_image_config; mkdir is the outcome of
\* creating the download directory.
StepImageConfig(st, ed, ui, mkdir) ==
    IF ui = None THEN SetupShowForm(st, ed, "image_config", EmptyDict)
    ELSE LET download_images == Val(ui).download_images
             download_path == Val(ui).download_path
             errors == IF download_images /\ mkdir = "oserror"
                       THEN "download_path" :> "invalid_path" ELSE EmptyDict
         IN  IF errors = EmptyDict
             THEN [setup |->
                      [st EXCEPT
                          !.step = "done",
                          !.created = Some([client_id |-> Val(st.data).client_id,
                                            secret |-> Val(st.data).secret,
                                            download_images |-> download_images,
                                            download_path |-> download_path]),
                          !.result = [type |-> "create_entry", step_id |-> "",
                                      reason |-> "", errors |-> EmptyDict]],
                   entry_data |-> ed]
             ELSE SetupShowForm(st, ed, "image_config", errors)

\* PlantSensorConfigFlow.async_step_user of a session: the result of the
\* credentials step and what it does to the handler and the parent entry.
SetupStepUserKeepsSecret(st, ed, ui, construct) ==
    IF ui = None THEN SetupShowForm(st, ed, "user", EmptyDict)
    ELSE LET client_id == Strip(Val(ui).client_id)
             secret == Strip(Val(ui).secret)
             configured == client_id = ParentUniqueId
             r == CredentialsStepUser(st.source, Val(ui), construct, configured)
         IN  IF r.type = "form" /\ r.step_id = "user"
             THEN SetupShowForm(st, ed, "user", r.errors)
             ELSE IF r.type = "abort" /\ r.reason = "reauth_successful"
             THEN SetupAbort(st, [ed EXCEPT !.client_id = client_id], r.reason)
             ELSE IF r.type = "abort" THEN SetupAbort(st, ed, r.reason)
             ELSE StepImageConfig(
                     [st EXCEPT !.data = Some([client_id |-> client_id,
                                               secret |-> secret])],
                     ed, None, "ok")
SetupStepUser(st, ed, ui, construct) ==
    IF ui = None THEN SetupShowForm(st, ed, "user", EmptyDict)
    ELSE LET client_id == Strip(Val(ui).client_id)
             secret == Strip(Val(ui).secret)
             configured == client_id = ParentUniqueId
             r == CredentialsStepUser(st.source, Val(ui), construct, configured)
         IN  IF r.type = "form" /\ r.step_id = "user"
             THEN SetupShowForm(st, ed, "user", r.errors)
             ELSE IF r.type = "abort" /\ r.reason = "reauth_successful"
             THEN SetupAbort(st, [ed EXCEPT !.client_id = client_id,
                                            !.secret = secret], r.reason)
             ELSE IF r.type = "abort" THEN SetupAbort(st, ed, r.reason)
             ELSE StepImageConfig(
                     [st EXCEPT !.data = Some([client_id |-> client_id,
                                               secret |-> secret])],
                     ed, None, "ok")

\* async_step_reauth_confirm, reached first through async_step_reauth.
StepReauthConfirm(st, ed, ui) ==
    IF ui = None THEN SetupShowForm(st, ed, "reauth_confirm", EmptyDict)
    ELSE SetupStepUser(st, ed, None, "ok")

CredentialForms ==
    [client_id : {<<>>, <<" ">>, <<"a">>, <<"b">>, <<" ", "c">>},
     secret : {<<>>, <<" ">>, <<"s">>, <<"t", " ">>, <<"u">>}]
ConstructOutcomes == {"ok", "error"}

ImageConfigForms ==
    [download_images : BOOLEAN,
     download_path : {"www/images/plants/", "/nowhere"}]
MkdirOutcomes == {"ok", "oserror"}

\* The flow manager starts a setup session, at the user's request or as a
\* re-auth flow of the parent entry.
StartSetup ==
    /\ setup.step \in {"none", "done"}
    /\ \E source \in {"user", "reauth"} :
          LET st == [NoSetup EXCEPT !.source = source]
              r == IF source = "reauth" THEN StepReauthConfirm(st, entry_data, None)
                   ELSE SetupStepUser(st, entry_data, None, "ok")
          IN  setup' = r.setup
    /\ UNCHANGED <<hass_entry, v_input, v_out, sdk_available, entry_data, subentries, flows,
                   reauth_tasks, reauth_flows, api_log>>

SubmitReauthConfirm ==
    /\ setup.step = "reauth_confirm"
    /\ setup' = StepReauthConfirm(setup, entry_data, Some(EmptyDict)).setup
    /\ UNCHANGED <<hass_entry, v_input, v_out, sdk_available, entry_data, subentries, flows,
                   reauth_tasks, reauth_flows, api_log>>

SubmitCredentials ==
    /\ setup.step = "user"
    /\ \E ui \in CredentialForms, construct \in ConstructOutcomes :
          LET r == SetupStepUser(setup, entry_data, Some(ui), construct)
          IN  setup' = r.setup /\ entry_data' = r.entry_data
    /\ UNCHANGED <<hass_entry, v_input, v_out, sdk_available, subentries, flows,
                   reauth_tasks, reauth_flows, api_log>>

SubmitImageConfig ==
    /\ setup.step = "image_config"
    /\ \E ui \in ImageConfigForms, mkdir \in MkdirOutcomes :
          LET r == StepImageConfig(setup, entry_data, Some(ui), mkdir)
          IN  setup' = r.setup /\ entry_data' = r.entry_data
    /\ UNCHANGED <<hass_entry, v_input, v_out, sdk_available, subentries, flows,
                   reauth_tasks, reauth_flows, api_log>>

\* The user closes the form: the flow manager removes the session.
AbandonSetup ==
    /\ setup.step \in {"user", "reauth_confirm", "image_config"}
    /\ setup' = [setup EXCEPT !.step = "done",
                              !.result = [type |-> "abandoned", step_id |-> "",
                                          reason |-> "", errors |-> EmptyDict]]
    /\ UNCHANGED <<hass_entry, v_input, v_out, sdk_available, entry_data, subentries, flows,
                   reauth_tasks, reauth_flows, api_log>>

\* One plant record of the parent entry, as the wizard stores it.
StoredPlant ==
    [unique_id |-> <<"a">>, title |-> <<"A">>,
     data |-> [device_id |-> <<"a">>, name |-> <<"A">>, plant_id |-> Some(<<"a">>)]]

SetupInit ==
    /\ sdk_available \in BOOLEAN
    /\ entry_data = [client_id |-> <<"a">>, secret |-> <<"s">>,
                     download_images |-> TRUE,
                     download_path |-> "www/images/plants/"]
    /\ subentries = 1 :> StoredPlant
    /\ setup = NoSetup
    /\ hass_entry = NotLoaded
    /\ flows = [s \in Sessions |-> NoFlow]
    /\ reauth_tasks = 0
    /\ reauth_flows = 0
    /\ api_log = [s \in Sessions |-> NoCalls]
    /\ v_input = <<>>
    /\ v_out = NoOutput

SetupNext ==
    \/ StartSetup
    \/ SubmitReauthConfirm
    \/ SubmitCredentials
    \/ SubmitImageConfig
    \/ AbandonSetup

SpecSetup == SetupInit /\ [][SetupNext]_vars

\* ------------------------------------------------- the entry, as loaded

\* A dict without one of its keys.
WithoutKey(d, k) == [x \in DOMAIN d \ {k} |-> d[x]]

PlantSuffix == <<"_", "p", "l", "a", "n", "t">>

\* PlantSensor.__init__: the identity of the sensor of a device.
PlantSensorInit(device_info, device_id) ==
    [unique_id |-> device_id \o PlantSuffix, device_id |-> device_id,
     device_info |-> device_info]

\* The greatest subentry id, 0 when there is none.
LastId(subs) ==
    IF DOMAIN subs = {} THEN 0
    ELSE CHOOSE i \in DOMAIN subs : \A j \in DOMAIN subs : j <= i

\* The loop of sensor.async_setup_entry over entry.subentries: the calls of
\* async_add_entities it makes, in the order of the subentries.
RECURSIVE SubentryCallsFrom(_, _)
SubentryCallsFrom(subs, i) ==
    IF i > LastId(subs) THEN <<>>
    ELSE (IF i \in DOMAIN subs /\ "device_id" \in DOMAIN subs[i].data
          THEN <<[entities |-> <<PlantSensorInit(WithoutKey(subs[i].data, "device_id"),
                                                 subs[i].data.device_id)>>,
                  config_subentry_id |-> Some(i)]>>
          ELSE <<>>)
         \o SubentryCallsFrom(subs, i + 1)

\* sensor.async_setup_entry: the calls of async_add_entities, each with its
\* entities and the subentry id it passes.
SensorAsyncSetupEntryOneCall(ed, subs) ==
    LET calls == SubentryCallsFrom(subs, 1)
    IN  IF calls = <<>> THEN <<>>
        ELSE <<[entities |-> [i \in 1..Len(calls) |-> calls[i].entities[1]],
                config_subentry_id |-> None]>>
SensorAsyncSetupEntry(ed, subs) ==
    IF "device_id" \in DOMAIN ed
    THEN <<[entities |-> <<PlantSensorInit(WithoutKey(ed, "device_id"), ed.device_id)>>,
            config_subentry_id |-> None]>>
    ELSE SubentryCallsFrom(subs, 1)

\* __init__.async_setup_entry: the entry's data is put into hass.data, the
\* update listener is added and the entry is forwarded to the sensor
\* platform; it returns True.
AsyncSetupEntry(h, ed, subs) ==
    [h EXCEPT !.data = Some(ed), !.listener = TRUE,
              !.calls = SensorAsyncSetupEntry(ed, subs)]

\* __init__.async_unload_entry: the entry's data is popped from hass.data,
\* then the platforms are unloaded; it returns what that unloading returned.
AsyncUnloadEntry(h, unload_result) ==
    [result |-> unload_result,
     hass_entry |-> [h EXCEPT !.data = None,
                              !.calls = IF unload_result THEN <<>> ELSE @]]

\* The host sets up an entry that is not loaded.
HostSetup(h, ed, subs) ==
    [AsyncSetupEntry(h, ed, subs) EXCEPT !.state = "loaded"]

\* The host unloads a loaded entry: when async_unload_entry returns True the
\* entry is not loaded and its on-unload callbacks have removed the listener,
\* otherwise the entry is left in the failed-unload state.
HostUnload(h, unload_result) ==
    LET r == AsyncUnloadEntry(h, unload_result)
    IN  IF r.result
        THEN [r.hass_entry EXCEPT !.state = "not_loaded", !.listener = FALSE]
        ELSE [r.hass_entry EXCEPT !.state = "failed_unload"]

\* __init__.async_update_entry, the update listener: the entry is reloaded,
\* that is unloaded and, when that went well, set up again.
AsyncUpdateEntry(h, ed, subs, unload_result) ==
    LET h0 == [h EXCEPT !.reload_pending = FALSE]
    IN  IF h0.state = "loaded"
        THEN LET u == HostUnload(h0, unload_result)
             IN  IF u.state = "not_loaded" THEN HostSetup(u, ed, subs) ELSE u
        ELSE IF h0.state = "not_loaded" THEN HostSetup(h0, ed, subs)
        ELSE h0

\* OptionsFlowHandler.async_step_init; mkdir is the outcome of creating the
\* download directory.
OptionsStepInitNoGuard(st, ed, ui, mkdir) ==
    IF ui # None
    THEN LET download_images == Val(ui).download_images
             download_path == Val(ui).download_path
             errors == IF download_images /\ mkdir = "oserror"
                       THEN "download_path" :> "invalid_path" ELSE EmptyDict
         IN  IF errors = EmptyDict
             THEN [setup |->
                      [st EXCEPT
                          !.step = "done",
                          !.result = [type |-> "create_entry", step_id |-> "",
                                      reason |-> "", errors |-> EmptyDict]],
                   entry_data |-> [ed EXCEPT !.download_images = download_images,
                                             !.download_path = download_path]]
             ELSE SetupShowForm(st, ed, "init", errors)
    ELSE SetupShowForm(st, ed, "init", EmptyDict)
OptionsStepInit(st, ed, ui, mkdir) ==
    IF IsReauthFlowInProgress THEN SetupAbort(st, ed, "reauth_required")
    ELSE IF ui # None
    THEN LET download_images == Val(ui).download_images
             download_path == Val(ui).download_path
             errors == IF download_images /\ mkdir = "oserror"
                       THEN "download_path" :> "invalid_path" ELSE EmptyDict
         IN  IF errors = EmptyDict
             THEN [setup |->
                      [st EXCEPT
                          !.step = "done",
                          !.result = [type |-> "create_entry", step_id |-> "",
                                      reason |-> "", errors |-> EmptyDict]],
                   entry_data |-> [ed EXCEPT !.download_images = download_images,
                                             !.download_path = download_path]]
             ELSE SetupShowForm(st, ed, "init", errors)
    ELSE SetupShowForm(st, ed, "init", EmptyDict)

\* The host sets up the entry.
SetupEntry ==
    /\ hass_entry.state = "not_loaded"
    /\ hass_entry' = HostSetup(hass_entry, entry_data, subentries)
    /\ UNCHANGED <<v_input, v_out, sdk_available, entry_data, subentries, flows,
                   reauth_tasks, reauth_flows, setup, api_log>>

\* The host unloads the entry; the platforms unload or fail to.
UnloadEntry ==
    /\ hass_entry.state = "loaded"
    /\ \E unload_result \in BOOLEAN :
          hass_entry' = HostUnload(hass_entry, unload_result)
    /\ UNCHANGED <<v_input, v_out, sdk_available, entry_data, subentries, flows,
                   reauth_tasks, reauth_flows, setup, api_log>>

\* The update listener runs after a change of the entry.
UpdateListener ==
    /\ hass_entry.reload_pending
    /\ \E unload_result \in BOOLEAN :
          hass_entry' = AsyncUpdateEntry(hass_entry, entry_data, subentries,
                                         unload_result)
    /\ UNCHANGED <<v_input, v_out, sdk_available, entry_data, subentries, flows,
                   reauth_tasks, reauth_flows, setup, api_log>>

\* The host is restarted after a failed unload: nothing is loaded.
RestartHost ==
    /\ hass_entry.state = "failed_unload"
    /\ hass_entry' = NotLoaded
    /\ UNCHANGED <<v_input, v_out, sdk_available, entry_data, subentries, flows,
                   reauth_tasks, reauth_flows, setup, api_log>>

\* The user opens the options of the parent entry.
StartOptions ==
    /\ setup.step \in {"none", "done"}
    /\ setup' = OptionsStepInit([NoSetup EXCEPT !.source = "options"], entry_data,
                                None, "ok").setup
    /\ UNCHANGED <<hass_entry, v_input, v_out, sdk_available, entry_data, subentries,
                   flows, reauth_tasks, reauth_flows, api_log>>

\* The user submits the options form; async_update_entry stores the data and,
\* when it changed, has the update listener run.
SubmitOptions ==
    /\ setup.source = "options"
    /\ setup.step = "init"
    /\ \E ui \in ImageConfigForms, mkdir \in MkdirOutcomes :
          LET r == OptionsStepInit(setup, entry_data, Some(ui), mkdir)
          IN  /\ setup' = r.setup
              /\ entry_data' = r.entry_data
              /\ hass_entry' = IF r.entry_data # entry_data /\ hass_entry.listener
                               THEN [hass_entry EXCEPT !.reload_pending = TRUE]
                               ELSE hass_entry
    /\ UNCHANGED <<v_input, v_out, sdk_available, subentries, flows,
                   reauth_tasks, reauth_flows, api_log>>

\* The user closes the options form.
AbandonOptions ==
    /\ setup.source = "options"
    /\ setup.step = "init"
    /\ setup' = [setup EXCEPT !.step = "done",
                              !.result = [type |-> "abandoned", step_id |-> "",
                                          reason |-> "", errors |-> EmptyDict]]
    /\ UNCHANGED <<hass_entry, v_input, v_out, sdk_available, entry_data, subentries,
                   flows, reauth_tasks, reauth_flows, api_log>>

\* Plant records: another one as the wizard stores it, and one without a
\* device_id.
OtherPlant ==
    [unique_id |-> <<"b">>, title |-> <<"B">>,
     data |-> [device_id |-> <<"b">>, name |-> <<"B">>, plant_id |-> Some(<<"b">>)]]
PlantWithoutDeviceId ==
    [unique_id |-> None, title |-> <<"C">>, data |-> [name |-> <<"C">>]]

EntrySubentries ==
    {<<>>, <<StoredPlant>>, <<PlantWithoutDeviceId>>, <<StoredPlant, OtherPlant>>,
     <<PlantWithoutDeviceId, OtherPlant>>, <<StoredPlant, PlantWithoutDeviceId>>}

EntryInit ==
    /\ sdk_available = TRUE
    /\ entry_data = [client_id |-> <<"a">>, secret |-> <<"s">>,
                     download_images |-> TRUE,
                     download_path |-> "www/images/plants/"]
    /\ subentries \in EntrySubentries
    /\ setup = NoSetup
    /\ hass_entry = NotLoaded
    /\ flows = [s \in Sessions |-> NoFlow]
    /\ reauth_tasks \in {0, 1}
    /\ reauth_flows = 0
    /\ api_log = [s \in Sessions |-> NoCalls]
    /\ v_input = <<>>
    /\ v_out = NoOutput

EntryNext ==
    \/ SetupEntry
    \/ UnloadEntry
    \/ UpdateListener
    \/ RestartHost
    \/ StartOptions
    \/ SubmitOptions
    \/ AbandonOptions
    \/ ReauthTaskStart
    \/ ReauthAbandon

SpecEntry == EntryInit /\ [][EntryNext]_vars

\* ------------------------------------- the record helpers, applied alone

\* Values of a name field of a record: None, empty, and texts whose slug
\* differs from the text.
NameFieldValues ==
    {None, Some(<<>>), Some(<<"a", " ", "B">>), Some(<<"#">>), Some(<<"b", "1">>)}

NameFieldKeys == {"plant_id", "scientific_name", "name"}

\* The dicts with any of the three keys, each with any of the values.
DeviceIdInputs ==
    UNION {[keys -> NameFieldValues] : keys \in SUBSET NameFieldKeys}

\* The sensor's fields that become attributes, and the attribute each
\* becomes.
BasicAttrFields == {"scientific_name", "common_name", "categories", "plant_id"}
AttrFields == BasicAttrFields \cup RangeFieldSet
AttrName ==
    [f \in AttrFields |->
        CASE f = "min_light" -> "minimum_light" [] f = "max_light" -> "maximum_light"
          [] f = "min_temp" -> "minimum_temperature"
          [] f = "max_temp" -> "maximum_temperature"
          [] f = "min_humidity" -> "minimum_humidity"
          [] f = "max_humidity" -> "maximum_humidity"
          [] f = "min_moisture" -> "minimum_moisture"
          [] f = "max_moisture" -> "maximum_moisture"
          [] f = "min_soil_ec" -> "minimum_soil_ec"
          [] f = "max_soil_ec" -> "maximum_soil_ec"
          [] OTHER -> f]

\* dict.get(key, default)
GetOr(d, k, default) == IF k \in DOMAIN d THEN d[k] ELSE default

\* _create_device_entities: the fields the PlantSensor is constructed with.
CreateDeviceEntities(device_info) ==
    [f \in AttrFields |->
        CASE f = "min_light" -> GetOr(device_info, f, Some(0))
          [] f = "max_light" -> GetOr(device_info, f, Some(100))
          [] OTHER -> Get(device_info, f)]

\* PlantSensor.extra_state_attributes: a dict from attribute name to value.
ExtraStateAttributes(sensor) ==
    LET included == {f \in AttrFields :
                        IF f \in BasicAttrFields THEN Truthy(sensor[f])
                        ELSE sensor[f] # None}
    IN  [a \in {AttrName[f] : f \in included} |->
            Val(sensor[CHOOSE f \in included : AttrName[f] = a])]

\* A key of a record: missing from it, or present with a value.
MissingKey == [present |-> FALSE, value |-> None]
PresentKey(value) == [present |-> TRUE, value |-> value]
Entry(k, choice) == IF choice.present THEN k :> choice.value ELSE EmptyDict

TextChoices == {MissingKey, PresentKey(None), PresentKey(Some(<<>>)), PresentKey(Some(<<"a">>))}
ListChoices == {MissingKey, PresentKey(None), PresentKey(Some(<<>>)), PresentKey(Some(<< <<"a">> >>))}
NumberChoices == {MissingKey, PresentKey(None), PresentKey(Some(0)), PresentKey(Some(1))}

\* The fields that are not varied one by one: all missing, all None, or all
\* with a value.
OtherFields(choice_text, choice_number) ==
    Entry("common_name", choice_text) @@ Entry("plant_id", choice_text)
        @@ Entry("max_light", choice_number) @@ Entry("min_temp", choice_number)
        @@ Entry("min_humidity", choice_number) @@ Entry("max_humidity", choice_number)
        @@ Entry("min_moisture", choice_number) @@ Entry("max_moisture", choice_number)
        @@ Entry("min_soil_ec", choice_number) @@ Entry("max_soil_ec", choice_number)

DeviceInfoInputs ==
    {Entry("scientific_name", s) @@ Entry("categories", c) @@ Entry("min_light", l)
        @@ Entry("max_temp", t) @@ others :
        s \in TextChoices, c \in ListChoices, l \in NumberChoices, t \in NumberChoices,
        others \in {OtherFields(MissingKey, MissingKey),
                    OtherFields(PresentKey(None), PresentKey(None)),
                    OtherFields(PresentKey(Some(<<"b">>)), PresentKey(Some(1)))}}

ApplyExtraStateAttributes ==
    /\ v_out = NoOutput
    /\ v_input.kind = "device_info"
    /\ v_out' = [op |-> "extra_state_attributes", errors |-> EmptyDict,
                 result |-> ExtraStateAttributes(CreateDeviceEntities(v_input.data))]
    /\ UNCHANGED <<hass_entry, setup, v_input, sdk_available, entry_data, subentries, flows,
                   reauth_tasks, reauth_flows, api_log>>

ApplyGenerateDeviceId ==
    /\ v_out = NoOutput
    /\ v_input.kind = "plant_data"
    /\ v_out' = [op |-> "generate_device_id", errors |-> EmptyDict,
                 result |-> GenerateDeviceId(v_input.data)]
    /\ UNCHANGED <<hass_entry, setup, v_input, sdk_available, entry_data, subentries, flows,
                   reauth_tasks, reauth_flows, api_log>>

\* Values of exported data, tagged with their Python type.
NoneValue == [t |-> "none", v |-> <<>>]
Str(text) == [t |-> "str", v |-> text]
Dict(f) == [t |-> "dict", v |-> f]
List(s) == [t |-> "list", v |-> s]

TO_REDACT == {"client_id", "secret"}
REDACTED == <<"*", "*", "R", "E", "D", "A", "C", "T", "E", "D", "*", "*">>

\* homeassistant.components.diagnostics.async_redact_data: a copy of a dict
\* or list in which every non-empty value under a key of TO_REDACT is
\* replaced; None and empty strings are left as they are.
RECURSIVE RedactData(_)
RedactData(data) ==
    IF data.t = "list"
    THEN List([i \in 1..Len(data.v) |-> RedactData(data.v[i])])
    ELSE IF data.t # "dict" THEN data
    ELSE Dict([k \in DOMAIN data.v |->
                LET value == data.v[k]
                IN  IF value.t = "none" THEN value
                    ELSE IF value.t = "str" /\ value.v = <<>> THEN value
                    ELSE IF k \in TO_REDACT THEN Str(REDACTED)
                    ELSE IF value.t \in {"dict", "list"} THEN RedactData(value)
                    ELSE value])

\* async_get_config_entry_diagnostics; runtime is hass.data[DOMAIN][entry_id]
\* or None when the entry is not set up.
DiagnosticsRawSubentries(entry, runtime) ==
    [entry_data |-> RedactData(entry.data),
     entry_options |-> entry.options,
     entry_id |-> entry.entry_id,
     entry_title |-> entry.title,
     entry_unique_id |-> entry.unique_id,
     subentries |-> [i \in DOMAIN entry.subentries |->
                        [data |-> entry.subentries[i], subentry_id |-> i]],
     runtime_data |-> IF runtime = None THEN None ELSE Some(RedactData(Val(runtime)))]
AsyncGetConfigEntryDiagnostics(entry, runtime) ==
    [entry_data |-> RedactData(entry.data),
     entry_options |-> entry.options,
     entry_id |-> entry.entry_id,
     entry_title |-> entry.title,
     entry_unique_id |-> entry.unique_id,
     subentries |-> [i \in DOMAIN entry.subentries |->
                        [data |-> RedactData(entry.subentries[i]), subentry_id |-> i]],
     runtime_data |-> IF runtime = None THEN None ELSE Some(RedactData(Val(runtime)))]

\* Parent entries as the credentials flow creates them: the unique id is the
\* client id.
ParentEntryData ==
    {Dict([client_id |-> Str(c), secret |-> Str(s),
           download_images |-> Str(<<"y">>), download_path |-> Str(<<"w">>)]) :
        c \in {<<"a">>, <<"b">>}, s \in {<<"s">>, <<"t">>}}

\* Plant records: without credentials, and with credential fields nested in
\* the catalog's answer, in a dict and in a list of dicts.
PlantRecordData ==
    {Dict([name |-> Str(<<"a">>), common_name |-> NoneValue]),
     Dict([name |-> Str(<<"a">>), secret |-> Str(<<"s">>)]),
     Dict([name |-> Str(<<"b">>),
           plant_book_data |-> Dict([pid |-> Str(<<"a">>), client_id |-> Str(<<"a">>),
                                     image |-> Str(<<>>)])]),
     Dict([name |-> Str(<<"b">>),
           plant_book_data |->
               Dict([pid |-> Str(<<"b">>),
                     sources |-> List(<<Dict([secret |-> Str(<<"t">>),
                                              url |-> Str(<<"u">>)])>>)])])}

DiagnosticsInputs ==
    [kind : {"diagnostics"}, data : ParentEntryData,
     subentries : {<<>>} \cup [1..1 -> PlantRecordData] \cup [1..2 -> PlantRecordData],
     loaded : BOOLEAN]

\* The parent entry the credentials flow creates for this data: its unique
\* id is the client id the user entered, its title is fixed.
ParentEntry(data, subs) ==
    [data |-> data, title |-> "Open PlantBook",
     options |-> EmptyDict, entry_id |-> "entry",
     unique_id |-> data.v.client_id.v,
     subentries |-> subs]

ApplyAsyncGetConfigEntryDiagnostics ==
    /\ v_out = NoOutput
    /\ v_input.kind = "diagnostics"
    /\ LET entry == ParentEntry(v_input.data, v_input.subentries)
           runtime == IF v_input.loaded THEN Some(v_input.data) ELSE None
       IN  v_out' = [op |-> "async_get_config_entry_diagnostics", errors |-> EmptyDict,
                     result |-> AsyncGetConfigEntryDiagnostics(entry, runtime)]
    /\ UNCHANGED <<hass_entry, setup, v_input, sdk_available, entry_data, subentries, flows,
                   reauth_tasks, reauth_flows, api_log>>

ImagePaths == {<<"www/images/plants/", "a.jpg">>, <<"www/images/plants/", "b.jpg">>}

DownloadInputs ==
    [kind : {"download"}, download_to : ImagePaths,
     files : UNION {[paths -> {"old"}] : paths \in SUBSET ImagePaths},
     net : NetOutcomes]

ApplyAsyncDownloadImage ==
    /\ v_out = NoOutput
    /\ v_input.kind = "download"
    /\ v_out' = [op |-> "async_download_image", errors |-> EmptyDict,
                 result |-> AsyncDownloadImage(v_input.download_to, v_input.files,
                                               v_input.net)]
    /\ UNCHANGED <<hass_entry, setup, v_input, sdk_available, entry_data, subentries, flows,
                   reauth_tasks, reauth_flows, api_log>>

\* The texts of at most CaseTextLen characters over a blank, letters of
\* both cases, a digit and U+01F0.
CaseTextLen == 3
CaseChars == {" ", "a", "B", "1", JCaron}
CaseInputs ==
    [kind : {"case"},
     text : UNION {[1..n -> CaseChars] : n \in 0..CaseTextLen}]

ApplyToProperCase ==
    /\ v_out = NoOutput
    /\ v_input.kind = "case"
    /\ v_out' = [op |-> "_to_proper_case", errors |-> EmptyDict,
                 result |-> ToProperCase(v_input.text)]
    /\ UNCHANGED <<hass_entry, setup, v_input, sdk_available, entry_data, subentries, flows,
                   reauth_tasks, reauth_flows, api_log>>

RecordsInit ==
    /\ v_input \in [kind : {"plant_data"}, data : DeviceIdInputs]
                     \cup [kind : {"device_info"}, data : DeviceInfoInputs]
                     \cup DiagnosticsInputs
                     \cup DownloadInputs
                     \cup CaseInputs
    /\ v_out = NoOutput
    /\ sdk_available = TRUE
    /\ WizardInit

RecordsNext ==
    \/ ApplyGenerateDeviceId
    \/ ApplyExtraStateAttributes
    \/ ApplyAsyncGetConfigEntryDiagnostics
    \/ ApplyAsyncDownloadImage
    \/ ApplyToProperCase

SpecRecords == RecordsInit /\ [][RecordsNext]_vars

\* ------------------------------------------------------------ validation

\* The documented order of the checks, as <<section, code>> per position:
\* three names, categories, ten required range fields, five min/max pairs.
NameChecks ==
    <<<<"names_section", "friendly_name_required">>,
      <<"names_section", "scientific_name_required">>,
      <<"names_section", "common_name_required">>,
      <<"categories_section", "categories_required">>>>

NumChecks == Len(NameChecks) + Len(RangeFields) + Len(Dims)

\* Whether the check at position i fails on the normalized submission.
CheckFails(ui, i) ==
    LET fn == ToProperCase(ui.friendly_name)
        sn == ToProperCase(ui.scientific_name)
        cn == ToProperCase(ui.common_name)
    IN  IF i = 1 THEN Len(fn) = 0
        ELSE IF i = 2 THEN Len(sn) = 0
        ELSE IF i = 3 THEN Len(cn) = 0
        ELSE IF i = 4 THEN Len(ui.categories) = 0
        ELSE IF i <= Len(NameChecks) + Len(RangeFields)
             THEN ui[RangeFields[i - Len(NameChecks)]] = None
        ELSE LET d == Dims[i - Len(NameChecks) - Len(RangeFields)]
                 mn == ui[MinField[d]]
                 mx == ui[MaxField[d]]
             IN  mn # None /\ mx # None /\ ~(mn[1] < mx[1])

\* The error the check at position i reports.
CheckError(ui, i) ==
    IF i <= Len(NameChecks) THEN NameChecks[i]
    ELSE IF i <= Len(NameChecks) + Len(RangeFields)
         THEN LET f == RangeFields[i - Len(NameChecks)]
              IN  <<SectionOfDim[DimOfField[f]], RequiredCode[f]>>
    ELSE LET d == Dims[i - Len(NameChecks) - Len(RangeFields)]
         IN  <<SectionOfDim[d],
               IF ui[MinField[d]][1] > ui[MaxField[d]][1]
               THEN GreaterCode[d] ELSE EqualsCode[d]>>

FailingChecks(ui) == {i \in 1..NumChecks : CheckFails(ui, i)}

FirstFailing(ui) ==
    CHOOSE i \in FailingChecks(ui) : \A j \in FailingChecks(ui) : i <= j

DictItems(d) == {<<k, d[k]>> : k \in DOMAIN d}

IsFullValidation(op) ==
    op \in {"_validate_plant_configuration", "_validate_configure_plant_options_input"}

\* C2: a Configure or Reconfigure validation reports at most one error, and
\* it is the error of the first failing check in the documented order
\* (names, categories, ten required range fields, five min/max pairs); when
\* no check fails it reports nothing.
C2_FirstFailureWins ==
    IsFullValidation(v_out.op) =>
        /\ Cardinality(DOMAIN v_out.errors) <= 1
        /\ DictItems(v_out.errors) =
              IF FailingChecks(v_input) = {} THEN {}
              ELSE {CheckError(v_input, FirstFailing(v_input))}

\* C2 witness: a validation ran on a submission on which an early check
\* and a later check both fail.
C2_Witness ==
    /\ IsFullValidation(v_out.op)
    /\ Cardinality(FailingChecks(v_input)) >= 3
    /\ DOMAIN v_out.errors # {}

IsPairValidation(op) ==
    op \in {"_validate_min_max_pairs", "_validate_plant_min_max_pairs"}

\* The dimensions whose bounds are both present and not strictly ordered.
ViolatedDims(ui) ==
    {i \in 1..Len(Dims) :
        /\ ui[MinField[Dims[i]]] # None
        /\ ui[MaxField[Dims[i]]] # None
        /\ ui[MinField[Dims[i]]][1] >= ui[MaxField[Dims[i]]][1]}

FirstViolatedDim(ui) ==
    Dims[CHOOSE i \in ViolatedDims(ui) : \A j \in ViolatedDims(ui) : i <= j]

\* C3: the pair check reports nothing when every pair with both bounds
\* present has min < max; otherwise it reports exactly the first violated
\* dimension (light, temperature, humidity, moisture, soil_ec), with the
\* "min greater than max" code when min > max and the distinct "min equals
\* max" code when min = max.
C3_MinMaxPairs ==
    IsPairValidation(v_out.op) =>
        IF ViolatedDims(v_input) = {}
        THEN v_out.errors = EmptyDict
        ELSE LET d == FirstViolatedDim(v_input)
                 mn == v_input[MinField[d]][1]
                 mx == v_input[MaxField[d]][1]
             IN  /\ DOMAIN v_out.errors = {SectionOfDim[d]}
                 /\ mn > mx => v_out.errors[SectionOfDim[d]] = GreaterCode[d]
                 /\ mn = mx => v_out.errors[SectionOfDim[d]] = EqualsCode[d]
                 /\ GreaterCode[d] # EqualsCode[d]

\* C3 witness: the pair check ran on a submission with two violated
\* dimensions, the first with min = max, and reported the equality code.
C3_Witness ==
    /\ IsPairValidation(v_out.op)
    /\ Cardinality(ViolatedDims(v_input)) = 2
    /\ LET d == FirstViolatedDim(v_input)
       IN  /\ v_input[MinField[d]] = v_input[MaxField[d]]
           /\ v_out.errors = (SectionOfDim[d] :> EqualsCode[d])

\* ------------------------------------------------------- stored records

\* Aborted(reauth_required)
ReauthRequired ==
    [type |-> "abort", step_id |-> "", reason |-> "reauth_required",
     errors |-> EmptyDict]

RangesValid(data) ==
    \A d \in DimSet :
        /\ data[MinField[d]] # None
        /\ data[MaxField[d]] # None
        /\ Val(data[MinField[d]]) < Val(data[MaxField[d]])

\* C1: after any sequence of create and reconfigure sessions, every stored
\* plant record has all ten range fields present and, for each of the five
\* dimensions, its minimum strictly below its maximum.
C1_StoredRangesValid ==
    \A i \in SubentryIds : RangesValid(subentries[i].data)

\* C1 witness: two records are stored and a reconfigure session has just
\* updated one of them.
C1_Witness ==
    /\ Cardinality(SubentryIds) = 2
    /\ \E s \in Sessions : flows[s].result.reason = "reconfigure_successful"

\* C9: the stored records change only when a create session ends Created,
\* when a reconfigure session ends Updated, or when a device is removed;
\* every other step, abandoned or aborted sessions included, leaves them as
\* they were.
C9_RecordsChangeOnlyAtTerminals ==
    [][subentries' # subentries =>
          \/ \E s \in Sessions :
                /\ flows[s].step = "configure_plant"
                /\ flows'[s].step = "done"
                /\ flows'[s].result.type = "create_entry"
                /\ \E i \in DOMAIN subentries' \ DOMAIN subentries :
                      subentries' = (i :> subentries'[i]) @@ subentries
          \/ \E s \in Sessions :
                /\ flows[s].step = "configure_plant_options"
                /\ flows'[s].step = "done"
                /\ flows'[s].result.reason = "reconfigure_successful"
                /\ DOMAIN subentries' = DOMAIN subentries
          \/ /\ \E i \in DOMAIN subentries :
                   subentries' = [j \in DOMAIN subentries \ {i} |-> subentries[j]]
             /\ \A s \in Sessions : flows'[s].step = flows[s].step]_vars

\* C9 witness: a session was abandoned at a form while a record was stored.
C9_Witness ==
    /\ SubentryIds # {}
    /\ \E s \in Sessions : flows[s].result.type = "abandoned"

\* C10: no two stored plant records have the same device_id; a create
\* whose device_id is that of a stored record adds no record.
C10_DeviceIdsDistinct ==
    \A i \in SubentryIds : \A j \in SubentryIds :
        i # j => subentries[i].data.device_id # subentries[j].data.device_id

\* C10 witness: a create session whose device_id was already stored has
\* been refused, and one record is stored.
C10_Witness ==
    /\ Cardinality(SubentryIds) = 1
    /\ \E s \in Sessions : flows[s].result.reason = "already_configured"

FormShown(c, step_id) ==
    /\ c.f.step = step_id
    /\ c.f.result = [type |-> "form", step_id |-> step_id, reason |-> "",
                     errors |-> EmptyDict]
    /\ ~c.raised

NoResultsOutcome == [kind |-> "ok", results |-> <<>>]

\* The searches that return zero results end at the no-results form, and
\* manual_entry there shows the configuration form with no selected plant
\* and no range value prefilled.
NoResultsThenManual(s) ==
    /\ flows[s].step = "user" =>
          \A name \in PlantNameInputs, dout \in DetailOutcomes :
              LET c == StepUser(Ctx(flows[s]), Some(name), NoResultsOutcome, dout)
              IN  c.calls # <<>> => FormShown(c, "no_results_found")
    /\ flows[s].step = "no_results_found" =>
          \A dout \in DetailOutcomes :
              LET c == StepNoResultsFound(Ctx(flows[s]), "manual_entry", dout)
              IN  /\ FormShown(c, "configure_plant")
                  /\ c.f.selected = None
                  /\ c.calls = <<>>
                  /\ \A fld \in RangeFieldSet : c.f.defaults[fld] = None

\* C12 as stated: when a search returns zero results the wizard shows the
\* no-results choice; choosing manual_entry there shows the configuration
\* form with no selected plant, and choosing search_again shows the plant
\* name form.
C12_NoResultsChoices ==
    \A s \in Sessions :
        /\ NoResultsThenManual(s)
        /\ flows[s].step = "no_results_found" =>
              \A dout \in DetailOutcomes :
                  FormShown(StepNoResultsFound(Ctx(flows[s]), "search_again", dout),
                            "user")

\* C12 amended: as C12, except that search_again shows the plant name form
\* only when no re-auth flow is in progress for the parent entry; when one
\* is, the session ends Aborted(reauth_required).
C12_NoResultsChoicesUnlessReauth ==
    \A s \in Sessions :
        /\ NoResultsThenManual(s)
        /\ flows[s].step = "no_results_found" =>
              \A dout \in DetailOutcomes :
                  LET c == StepNoResultsFound(Ctx(flows[s]), "search_again", dout)
                  IN  IF IsReauthFlowInProgress
                      THEN c.f.step = "done" /\ c.f.result = ReauthRequired
                      ELSE FormShown(c, "user")

\* C12 witness: after a search without results, manual_entry has shown the
\* configuration form with no selected plant, while a re-auth flow is in
\* progress.
C12_Witness ==
    /\ IsReauthFlowInProgress
    /\ \E s \in Sessions :
          /\ flows[s].step = "configure_plant"
          /\ flows[s].selected = None
          /\ flows[s].search_results = <<>>
          /\ flows[s].plant_name = Some(<<"a">>)

\* The form contents are those of candidate cand: its names and category,
\* and every range value it carries.
PrefilledFrom(defaults, cand) ==
    /\ defaults.scientific_name = ToProperCase(cand.display_pid)
    /\ defaults.common_name = ToProperCase(cand.alias)
    /\ defaults.categories = <<ToProperCase(cand.category)>>
    /\ \A fld \in RangeFieldSet :
          ParamMapping[fld] \in DOMAIN cand =>
              defaults[fld] = Some(cand[ParamMapping[fld]])

\* Handler invocation c has gone to Configure with candidate cand selected
\* and the form prefilled from it.
ConfigureWith(c, cand) ==
    /\ FormShown(c, "configure_plant")
    /\ c.f.selected # None
    /\ \A k \in DOMAIN cand : k \in DOMAIN Val(c.f.selected)
                                /\ Val(c.f.selected)[k] = cand[k]
    /\ PrefilledFrom(c.f.defaults, cand)

\* C13: when a search returns exactly one result the wizard does not show
\* the candidate selection: the same submission shows the configuration
\* form, with that result as the selected plant and the form prefilled
\* from it.
C13_SingleResultGoesToConfigure ==
    \A s \in Sessions :
        flows[s].step = "user" =>
            \A name \in PlantNameInputs, cand \in {CandA, CandB},
               dout \in DetailOutcomes :
                LET c == StepUser(Ctx(flows[s]), Some(name),
                                  [kind |-> "ok", results |-> <<cand>>], dout)
                IN  c.calls # <<>> =>
                        /\ c.f.step # "select_plant"
                        /\ ConfigureWith(c, cand)

\* The pids of the candidates handler f lists.
ListedPids(f) == {f.search_results[i].pid : i \in 1..Len(f.search_results)}

\* The first listed candidate with pid p.
Listed(f, p) ==
    f.search_results[CHOOSE i \in 1..Len(f.search_results) :
                        /\ f.search_results[i].pid = p
                        /\ \A j \in 1..(i - 1) : f.search_results[j].pid # p]

\* C14: when a search returns two or more results the wizard shows the
\* candidate selection; there, manual_entry shows the configuration form
\* with no selected plant, search_again shows the plant name form, the pid
\* of a listed candidate shows the configuration form with exactly that
\* candidate selected, and a missing or unmatched choice shows the
\* selection again with an error.
C14_SelectCandidateChoices ==
    \A s \in Sessions :
        /\ flows[s].step = "user" =>
              \A name \in PlantNameInputs, dout \in DetailOutcomes :
                  LET c == StepUser(Ctx(flows[s]), Some(name),
                                    [kind |-> "ok", results |-> <<CandA, CandB>>],
                                    dout)
                  IN  c.calls # <<>> =>
                          /\ FormShown(c, "select_plant")
                          /\ c.f.search_results = <<CandA, CandB>>
        /\ flows[s].step = "select_plant" =>
              \A choice \in Choices, dout \in DetailOutcomes :
                  LET c == StepSelectPlant(Ctx(flows[s]), choice, dout)
                  IN  CASE choice.kind = "manual_entry" ->
                              FormShown(c, "configure_plant") /\ c.f.selected = None
                        [] choice.kind = "search_again" -> FormShown(c, "user")
                        [] choice.kind = "pid" /\ choice.pid \in ListedPids(flows[s]) ->
                              ConfigureWith(c, Listed(flows[s], choice.pid))
                        [] OTHER ->
                              /\ c.f.step = "select_plant"
                              /\ c.f.result.type = "form"
                              /\ c.f.result.errors # EmptyDict
                              /\ ~c.raised

\* C15: when the search call fails with a failure that is not an
\* authentication failure, the plant name form is shown again with a search
\* error and with the query just submitted (stripped) as its default, also
\* when an earlier query of the session was another one; the session is not
\* aborted, no re-auth task is created and no record is created or updated.
C15_SearchFailureReturnsToPlantName ==
    \A s \in Sessions :
        flows[s].step = "user" =>
            \A name \in PlantNameInputs \cup {<<" ", "b">>},
               kind \in {"conn", "other"}, dout \in DetailOutcomes :
                LET c == StepUser(Ctx(flows[s]), Some(name),
                                  [kind |-> kind, results |-> <<>>], dout)
                IN  c.calls # <<>> =>
                        /\ c.f.step = "user"
                        /\ c.f.result = [type |-> "form", step_id |-> "user",
                                         reason |-> "", errors |-> SearchError]
                        /\ c.f.defaults = [plant_name |-> Strip(name)]
                        /\ ~c.raised
                        /\ c.tasks = 0
                        /\ c.create = None /\ c.update = None

\* C15 witness: a session is back at the plant name form with the search
\* error and its query as the default, no plant selected, while a record
\* is stored.
C15_Witness ==
    /\ SubentryIds # {}
    /\ \E s \in Sessions :
          /\ flows[s].step = "user"
          /\ flows[s].result.errors = SearchError
          /\ flows[s].selected = None
          /\ flows[s].defaults = [plant_name |-> <<"a">>]

\* C16: no wizard step ends with a raw exception of the search call or of
\* the detail lookup: whatever the failure of the call (authentication,
\* connection or timeout, any other error), the step returns a form or an
\* abort.
C16_NoRawExceptionFromExternalCall ==
    \A s \in Sessions :
        ~(/\ flows[s].result.type = "exception"
          /\ flows[s].result.reason \in {"search", "detail"})

\* The ways an image download fails.
ImageFailures == {"status", "timeout", "oserror", "neterror"}

\* C17: a failed image download never prevents the record's creation: a
\* Configure submission that passes validation ends Created whether the
\* download returns a non-success status, times out or fails with any
\* network error, and the record it creates then has no entity_picture.
C17_DownloadFailureStillCreates ==
    \A s \in Sessions :
        flows[s].step = "configure_plant" =>
            \A ui \in WizardInputs, dout \in DetailOutcomes \ {"other"},
               img \in ImageFailures :
                LET c == StepConfigurePlant(Ctx(flows[s]), Some(ui), dout, img)
                IN  ValidatePlantConfiguration(ui) = EmptyDict =>
                        /\ ~c.raised
                        /\ c.f.result.type = "create_entry"
                        /\ c.create # None
                        /\ "entity_picture" \notin DOMAIN Val(c.create).data

\* The form contents are the values of submission ui, as typed or
\* case-normalized.
ShowsSubmitted(defaults, ui) ==
    /\ \A k \in {"friendly_name", "scientific_name", "common_name"} :
          defaults[k] \in {ui[k], ToProperCase(ui[k])}
    /\ defaults.categories \in
          {ui.categories,
           [i \in 1..Len(ui.categories) |-> ToProperCase(ui.categories[i])]}
    /\ \A fld \in RangeFieldSet : defaults[fld] = ui[fld]

\* C18: when a Configure or Reconfigure submission fails validation, the
\* same form is shown again with the error of the failing field and with
\* the submitted values as its contents.
C18_FailedSubmissionKeepsInput ==
    \A s \in Sessions :
        /\ flows[s].step = "configure_plant" =>
              \A ui \in WizardInputs, dout \in DetailOutcomes \ {"other"},
                 img \in ImageOutcomes :
                  LET c == StepConfigurePlant(Ctx(flows[s]), Some(ui), dout, img)
                      errors == ValidatePlantConfiguration(ui)
                  IN  errors # EmptyDict =>
                          /\ c.f.step = "configure_plant"
                          /\ c.f.result.type = "form"
                          /\ c.f.result.errors = errors
                          /\ ShowsSubmitted(c.f.defaults, ui)
        /\ (flows[s].step = "configure_plant_options"
              /\ flows[s].subentry \in SubentryIds) =>
              \A ui \in ReconfigureInputs :
                  LET c == StepConfigurePlantOptions(Ctx(flows[s]), Some(ui))
                      errors == ValidateConfigurePlantOptionsInput(
                                    ExtractSectionData(ui))
                  IN  errors # EmptyDict =>
                          /\ c.f.step = "configure_plant_options"
                          /\ c.f.result.type = "form"
                          /\ c.f.result.errors = errors
                          /\ ShowsSubmitted(c.f.defaults, ui)

\* -------------------------------------------------------------- re-auth

\* C4: at most one re-auth request for the parent entry exists at any time,
\* counting both the re-auth flows in progress and the re-auth tasks created
\* and not yet started.
C4_AtMostOneReauth == reauth_tasks + reauth_flows <= 1

\* C5: while a re-auth flow is in progress for the parent entry, a wizard
\* session that is taken into the Search step or the Configure step aborts
\* with reauth_required: it makes no search, and it neither shows nor
\* accepts the configuration form.
C5_AbortsWhileReauthPending ==
    \A s \in Sessions :
        IsReauthFlowInProgress =>
            /\ flows[s].step = "user" =>
                  \A name \in PlantNameInputs, sout \in SearchOutcomes,
                     dout \in DetailOutcomes :
                      LET c == StepUser(Ctx(flows[s]), Some(name), sout, dout)
                      IN  c.calls = <<>> /\ c.f.result = ReauthRequired
            /\ flows[s].step = "no_results_found" =>
                  \A dout \in DetailOutcomes :
                      StepNoResultsFound(Ctx(flows[s]), "manual_entry", dout).f.result
                          = ReauthRequired
            /\ flows[s].step = "select_plant" =>
                  \A dout \in DetailOutcomes :
                      StepSelectPlant(Ctx(flows[s]),
                                      [kind |-> "manual_entry", pid |-> <<>>],
                                      dout).f.result = ReauthRequired
            /\ flows[s].step = "configure_plant" =>
                  \A ui \in WizardInputs, dout \in DetailOutcomes,
                     img \in ImageOutcomes :
                      StepConfigurePlant(Ctx(flows[s]), Some(ui), dout,
                                         img).f.result = ReauthRequired

\* C6: when the search call of a session fails authentication, the session
\* ends Aborted(reauth_required), the stored records are unchanged, and a
\* re-auth task is created unless a re-auth flow is in progress.
C6_SearchAuthFailureAborts ==
    [][\A s \in Sessions :
          (api_log[s].auth_failed # "search" /\ api_log'[s].auth_failed = "search") =>
              /\ flows'[s].step = "done"
              /\ flows'[s].result = ReauthRequired
              /\ subentries' = subentries
              /\ reauth_tasks' = IF IsReauthFlowInProgress THEN reauth_tasks
                                 ELSE reauth_tasks + 1]_vars

\* C6 witness: a session's search failed authentication while a record was
\* stored; it is aborted and a re-auth task exists.
C6_Witness ==
    /\ SubentryIds # {}
    /\ reauth_tasks > 0
    /\ \E s \in Sessions :
          /\ api_log[s].auth_failed = "search"
          /\ flows[s].result = ReauthRequired

\* C7: a session that has created a re-auth task, after an authentication
\* failure of its search or of its detail lookup, has ended
\* Aborted(reauth_required); in particular it never ends Created.
C7_SchedulingSessionAborts ==
    \A s \in Sessions :
        api_log[s].scheduled =>
            flows[s].step = "done" /\ flows[s].result = ReauthRequired

\* C8: a session makes no search or detail call after one of its calls has
\* failed authentication, as long as the stored credentials are the same.
C8_NoCallAfterAuthFailure ==
    \A s \in Sessions : ~api_log[s].repeated

\* ------------------------------------------------------------ stored names

\* The three names of a record are absent or not empty.
NamesNotEmpty(data) ==
    /\ data.scientific_name # <<>>
    /\ data.common_name = None \/ Val(data.common_name) # <<>>
    /\ data.friendly_name = None \/ Val(data.friendly_name) # <<>>

\* A create session at its configuration form, for a manual plant.
AtConfigurePlant == Ctx([NewFlow("user") EXCEPT !.step = "configure_plant"])

\* A stored record, and a reconfigure session of it at its form.
SampleRecord ==
    Val(CreatePlantEntry(AtConfigurePlant,
                         UserInput(<<"a">>, <<"b">>, <<"a">>, <<<<"a">>>>, BaseRanges),
                         "ok").create).data
AtConfigurePlantOptions ==
    Ctx([NewFlow("reconfigure") EXCEPT !.step = "configure_plant_options"])

\* C28: whatever form is submitted to the create step or to the reconfigure
\* step, the record the step asks the host to store has a friendly_name, a
\* common_name and a scientific_name that are each absent or a non-empty
\* text; an empty text is never stored.
C28_StoredNamesAbsentOrNonEmpty ==
    /\ LET c == StepConfigurePlant(AtConfigurePlant, Some(v_input), "ok", "ok")
       IN  c.create # None => NamesNotEmpty(Val(c.create).data)
    /\ ValidateConfigurePlantOptionsInput(ExtractSectionData(v_input)) = EmptyDict
          => LET c == HandleConfigurePlantOptionsInput(AtConfigurePlantOptions,
                                                       v_input, SampleRecord)
             IN  c.update # None /\ NamesNotEmpty(Val(c.update).data)

\* A form with a friendly name of blanks only and mixed-case names was
\* validated without error; both steps store a record for it.
C28_Witness ==
    /\ v_out.op = "_validate_plant_configuration"
    /\ v_out.errors = EmptyDict
    /\ v_input.friendly_name = <<" ">>
    /\ v_input.common_name = <<"a", " ", "B">>
    /\ StepConfigurePlant(AtConfigurePlant, Some(v_input), "ok", "ok").create # None
    /\ HandleConfigurePlantOptionsInput(AtConfigurePlantOptions, v_input,
                                        SampleRecord).update # None

\* ---------------------------------------------------------- device removal

\* The records with the device_id that the identifiers give for this domain.
RecordsOfDevice(identifiers) ==
    {i \in SubentryIds :
        \E idf \in identifiers :
            idf[1] = DomainName /\ subentries[i].data.device_id = idf[2]}

\* C25: removing a device deletes exactly the one stored record whose
\* device_id is the device's identifier in this integration's domain and
\* returns true; when the device has no identifier in this domain, or no
\* stored record has that device_id, it returns false and removes nothing.
C25_RemoveDeviceRemovesItsRecord ==
    \A identifiers \in DeviceEntryIdentifiers :
        LET r == AsyncRemoveConfigEntryDevice(subentries, identifiers)
            hits == RecordsOfDevice(identifiers)
        IN  IF hits = {}
            THEN r.result = FALSE /\ r.subentries = subentries
            ELSE /\ r.result = TRUE
                 /\ \E i \in hits :
                       r.subentries = [j \in SubentryIds \ {i} |-> subentries[j]]

\* A device was removed while a reconfigure session held its record, and
\* the other stored record is still there.
C25_Witness ==
    /\ Cardinality(SubentryIds) = 1
    /\ \E s \in Sessions :
          /\ flows[s].source = "reconfigure"
          /\ flows[s].step = "configure_plant_options"
          /\ flows[s].subentry = 0

\* ---------------------------------------------------- the client wrapper

NonBlankCredentials ==
    /\ v_input.kind = "credentials"
    /\ Strip(v_input.client_id) # <<>>
    /\ Strip(v_input.secret) # <<>>

\* C19: when the client library is unavailable, get_api_client fails with a
\* failure kind of its own, distinct from the authentication failure, and the
\* credentials step shows its form again with the error cannot_connect, not
\* invalid_auth.
C19_SdkUnavailableIsCannotConnect ==
    /\ (v_out.op = "get_api_client" /\ ~sdk_available)
          => v_out.result \notin {"client", "ConfigEntryAuthFailed"}
    /\ (v_out.op = "async_step_user" /\ ~sdk_available /\ NonBlankCredentials)
          => /\ v_out.result.type = "form"
             /\ v_out.result.step_id = "user"
             /\ v_out.result.errors = "base" :> "cannot_connect"

\* The marker substrings of the authentication classification.
AuthMarkers ==
    {
      <<"u", "n", "a", "u", "t", "h", "o", "r", "i", "z", "e", "d">>,
      <<"a", "u", "t", "h", "e", "n", "t", "i", "c", "a", "t", "i", "o", "n">>,
      <<"i", "n", "v", "a", "l", "i", "d", " ", "c", "r", "e", "d", "e", "n", "t", "i", "a", "l", "s">>,
      <<"a", "c", "c", "e", "s", "s", " ", "d", "e", "n", "i", "e", "d">>,
      <<"f", "o", "r", "b", "i", "d", "d", "e", "n">>,
      <<"4", "0", "1">>,
      <<"4", "0", "3">>,
      <<"i", "n", "v", "a", "l", "i", "d", " ", "a", "p", "i", " ", "k", "e", "y">>,
      <<"i", "n", "v", "a", "l", "i", "d", " ", "c", "l", "i", "e", "n", "t">>,
      <<"t", "o", "k", "e", "n", " ", "e", "x", "p", "i", "r", "e", "d">>,
      <<"a", "u", "t", "h", "e", "n", "t", "i", "c", "a", "t", "i", "o", "n", " ", "f", "a", "i", "l", "e", "d">>,
      <<"w", "r", "o", "n", "g", " ", "c", "l", "i", "e", "n", "t", " ", "i", "d">>,
      <<"w", "r", "o", "n", "g", " ", "s", "e", "c", "r", "e", "t">>,
      <<"n", "o", " ", "p", "l", "a", "n", "t", "b", "o", "o", "k", " ", "t", "o", "k", "e", "n">>,
      <<"p", "e", "r", "m", "i", "s", "s", "i", "o", "n", " ", "d", "e", "n", "i", "e", "d">>,
      <<"w", "r", "o", "n", "g", " ", "c", "l", "i", "e", "n", "t", " ", "i", "d", " ", "o", "r", " ", "s", "e", "c", "r", "e", "t">>,
      <<"n", "o", " ", "t", "o", "k", "e", "n", " ", "a", "v", "a", "i", "l", "a", "b", "l", "e">>,
      <<"t", "o", "k", "e", "n", " ", "n", "o", "t", " ", "f", "o", "u", "n", "d">>,
      <<"i", "n", "v", "a", "l", "i", "d", " ", "t", "o", "k", "e", "n">>,
      <<"e", "x", "p", "i", "r", "e", "d", " ", "t", "o", "k", "e", "n">>
    }

\* C20: the classifier answers "authentication" for every PermissionError
\* whatever its message, and for any other failure exactly when its
\* lowercased message contains one of the markers; a message without a
\* marker, such as ValueError("Invalid input format"), is not authentication.
C20_ClassifierByTypeOrMarker ==
    v_out.op = "_is_auth_error"
        => v_out.result =
             (\/ v_input.type = "PermissionError"
              \/ \E m \in AuthMarkers : IsSubstring(m, Lower(v_input.message)))

\* A failure that is not a PermissionError, whose message holds a marker in
\* capitals only, has been classified as authentication.
C20_Witness ==
    /\ v_out.op = "_is_auth_error"
    /\ v_input.type = "ValueError"
    /\ v_input.message = Upper(<<"t", "o", "k", "e", "n", " ", "e", "x", "p", "i", "r", "e", "d">>)
    /\ v_out.result = TRUE

IsWrappedCall == v_out.op \in {"async_plant_search", "async_plant_detail_get"}

\* text ends with tail
EndsWith(text, tail) ==
    /\ Len(tail) <= Len(text)
    /\ SubSeq(text, Len(text) - Len(tail) + 1, Len(text)) = tail

\* C21: for search and for detail, when the SDK's method was called: a
\* failure classified as authentication is raised as ConfigEntryAuthFailed
\* whose message carries the original message, any other failure is raised
\* with the same type and message, and a returned value is returned as is.
C21_WrapperReclassifiesOnlyAuth ==
    (IsWrappedCall /\ v_out.result.called)
        => LET o == v_input.outcome
               r == v_out.result
           IN  IF ~o.raised
               THEN ~r.raised /\ r.value = o.value
               ELSE IF IsAuthError(o)
               THEN /\ r.raised
                    /\ r.type = "ConfigEntryAuthFailed"
                    /\ EndsWith(r.message, o.message)
               ELSE r.raised /\ r.type = o.type /\ r.message = o.message

\* The detail call failed with a ValueError whose text holds a marker and was
\* raised again as ConfigEntryAuthFailed quoting that text.
C21_Witness ==
    /\ v_out.op = "async_plant_detail_get"
    /\ v_out.result.called
    /\ v_input.outcome.raised
    /\ v_input.outcome.type = "ValueError"
    /\ v_input.outcome.message = <<"i", "n", "v", "a", "l", "i", "d", " ", "t", "o", "k", "e", "n">>
    /\ v_out.result.type = "ConfigEntryAuthFailed"
    /\ v_out.result.message = AuthFailedPrefix \o v_input.outcome.message

\* ------------------------------------------------------ the record helpers

\* The first of plant_id, scientific_name, name that is present and not
\* empty in the record, or None.
FirstNameField(data) ==
    IF Truthy(Get(data, "plant_id")) THEN data["plant_id"]
    ELSE IF Truthy(Get(data, "scientific_name")) THEN data["scientific_name"]
    ELSE IF Truthy(Get(data, "name")) THEN data["name"]
    ELSE None

\* C22: generate_device_id returns the slug of the first field present and
\* not empty among plant_id, scientific_name, name, and "unnamed_plant" when
\* none of the three is present and not empty.
C22_DeviceIdByPriority ==
    v_out.op = "generate_device_id"
        => v_out.result =
             IF FirstNameField(v_input.data) = None THEN UnnamedPlant
             ELSE Slugify(FirstNameField(v_input.data))

\* The fields of a record that are present and not null.
PresentFields(data) == {f \in AttrFields : Get(data, f) # None}

\* C23: the sensor made from a record has exactly the attributes of the
\* record's fields that are present and not null, each under its attribute
\* name and with the record's value; a field absent from the record is in
\* the attributes neither as null nor with a default.
C23_AttributesAreThePresentFields ==
    v_out.op = "extra_state_attributes"
        => /\ DOMAIN v_out.result = {AttrName[f] : f \in PresentFields(v_input.data)}
           /\ \A f \in PresentFields(v_input.data) :
                 v_out.result[AttrName[f]] = Val(v_input.data[f])

SecretFields == {"client_id", "secret"}
RedactionMarker == <<"*", "*", "R", "E", "D", "A", "C", "T", "E", "D", "*", "*">>

\* out is the value in with the marker in place of the value of every
\* secret field, at any depth, and nothing else changed.
RECURSIVE ExportedAs(_, _)
ExportedAs(in, out) ==
    IF in.t = "dict"
    THEN /\ out.t = "dict"
         /\ DOMAIN out.v = DOMAIN in.v
         /\ \A k \in DOMAIN in.v :
               IF k \in SecretFields THEN out.v[k] = Str(RedactionMarker)
               ELSE ExportedAs(in.v[k], out.v[k])
    ELSE IF in.t = "list"
    THEN /\ out.t = "list"
         /\ Len(out.v) = Len(in.v)
         /\ \A i \in 1..Len(in.v) : ExportedAs(in.v[i], out.v[i])
    ELSE out = in

\* C24: the diagnostics export has the marker in place of the values of
\* client_id and secret in the parent entry's data, in every plant record at
\* any depth and in the runtime data, and every other field unchanged.
C24_DiagnosticsRedactsCredentials ==
    v_out.op = "async_get_config_entry_diagnostics"
        => LET r == v_out.result IN
           /\ ExportedAs(v_input.data, r.entry_data)
           /\ DOMAIN r.subentries = DOMAIN v_input.subentries
           /\ \A i \in DOMAIN v_input.subentries :
                 /\ ExportedAs(v_input.subentries[i], r.subentries[i].data)
                 /\ r.subentries[i].subentry_id = i
           /\ IF v_input.loaded
              THEN r.runtime_data # None
                   /\ ExportedAs(v_input.data, Val(r.runtime_data))
              ELSE r.runtime_data = None
           /\ r.entry_unique_id = v_input.data.v.client_id.v
           /\ r.entry_options = EmptyDict
           /\ r.entry_id = "entry"
           /\ r.entry_title = "Open PlantBook"

\* An export of a set-up entry with two plant records, one holding a secret
\* inside a list of its catalog data, the other a client id in a nested dict.
C24_Witness ==
    /\ v_out.op = "async_get_config_entry_diagnostics"
    /\ v_input.loaded
    /\ Len(v_input.subentries) = 2
    /\ "plant_book_data" \in DOMAIN v_input.subentries[1].v
    /\ "sources" \in DOMAIN v_input.subentries[1].v.plant_book_data.v
    /\ "plant_book_data" \in DOMAIN v_input.subentries[2].v
    /\ "client_id" \in DOMAIN v_input.subentries[2].v.plant_book_data.v
    /\ v_out.result.entry_data.v.secret = Str(RedactionMarker)

\* -------------------------------------------------------- the setup session

\* A credentials form passes: both fields are not blank and the client can
\* be made.
CredentialsPass(ui, construct) ==
    /\ Strip(ui.client_id) # <<>>
    /\ Strip(ui.secret) # <<>>
    /\ sdk_available
    /\ construct = "ok"

\* C26: in a re-auth session a credentials form that passes ends the session
\* with reauth_successful and puts the submitted client_id and secret into
\* the parent entry's data, leaving its image fields as they were; no step
\* of a re-auth session changes the plant records, shows the image form or
\* creates a parent entry.
C26_ReauthUpdatesCredentialsOnly ==
    /\ [](\A ui \in CredentialForms, construct \in ConstructOutcomes :
            (setup.source = "reauth" /\ setup.step = "user"
                /\ CredentialsPass(ui, construct))
            => LET r == SetupStepUser(setup, entry_data, Some(ui), construct)
               IN  /\ r.setup.step = "done"
                   /\ r.setup.result.type = "abort"
                   /\ r.setup.result.reason = "reauth_successful"
                   /\ r.setup.created = None
                   /\ r.entry_data = [entry_data EXCEPT
                                         !.client_id = Strip(ui.client_id),
                                         !.secret = Strip(ui.secret)])
    /\ [][setup'.source = "reauth"
            => /\ subentries' = subentries
               /\ entry_data'.download_images = entry_data.download_images
               /\ entry_data'.download_path = entry_data.download_path
               /\ setup'.step # "image_config"
               /\ setup'.created = None]_vars

\* A re-auth session has ended with reauth_successful and the parent entry
\* holds another client id and another secret than before.
C26_Witness ==
    /\ setup.source = "reauth"
    /\ setup.result.reason = "reauth_successful"
    /\ entry_data.client_id = <<"c">>
    /\ entry_data.secret = <<"t">>
    /\ entry_data.download_images = TRUE
    /\ DOMAIN subentries = {1}

\* C27: outside re-auth, a parent entry is created only from the image form,
\* by a session that holds the non-blank credentials it passed the credentials
\* step with, and the entry carries them; the image form is shown only to such
\* a session; a credentials form with a blank field or a failed connection
\* test shows the credentials form again with an error, stores no credentials
\* and creates nothing.
C27_ParentCreatedAfterBothSteps ==
    /\ []((setup.step = "image_config" \/ setup.created # None)
            => /\ setup.source = "user"
               /\ setup.data # None
               /\ Val(setup.data).client_id # <<>>
               /\ Val(setup.data).secret # <<>>)
    /\ [](setup.created # None
            => /\ setup.result.type = "create_entry"
               /\ Val(setup.created).client_id = Val(setup.data).client_id
               /\ Val(setup.created).secret = Val(setup.data).secret)
    /\ [](\A ui \in CredentialForms, construct \in ConstructOutcomes :
            (setup.source = "user" /\ setup.step = "user"
                /\ ~CredentialsPass(ui, construct))
            => LET r == SetupStepUser(setup, entry_data, Some(ui), construct)
               IN  /\ r.setup.step = "user"
                   /\ r.setup.result.type = "form"
                   /\ r.setup.result.step_id = "user"
                   /\ r.setup.result.errors # EmptyDict
                   /\ r.setup.data = None
                   /\ r.setup.created = None
                   /\ r.entry_data = entry_data)
    /\ [][/\ ((setup'.created # None /\ setup.created = None)
                  => setup.step = "image_config")
           /\ ((setup'.step = "image_config" /\ setup.step # "image_config")
                  => setup.step = "user")
           /\ ((setup'.data # None /\ setup.data = None)
                  => setup.step = "user")]_vars

\* A setup session has created a parent entry with image download on and
\* the credentials it submitted, stripped.
C27_Witness ==
    /\ setup.source = "user"
    /\ setup.created # None
    /\ Val(setup.created).client_id = <<"c">>
    /\ Val(setup.created).download_images = TRUE
    /\ setup.result.type = "create_entry"

\* ------------------------------------------------------- the image fetcher

\* C29: the image fetcher called with a destination that exists returns
\* that path, makes no request and leaves every file as it was, whatever a
\* request would have come to.
C29_ExistingImageIsKept ==
    (v_out.op = "async_download_image" /\ v_input.download_to \in DOMAIN v_input.files)
        => /\ ~v_out.result.raised
           /\ v_out.result.file = Some(v_input.download_to)
           /\ ~v_out.result.requested
           /\ v_out.result.files = v_input.files

\* The fetcher was called for a file that exists, next to another file, when
\* a request would have succeeded, and returned the path.
C29_Witness ==
    /\ v_out.op = "async_download_image"
    /\ DOMAIN v_input.files = ImagePaths
    /\ v_input.net = "ok"
    /\ v_out.result.file = Some(v_input.download_to)
    /\ v_out.result.files[v_input.download_to] = "old"

\* ------------------------------------------------------ case normalization

\* C30: normalizing the result of a normalization yields the same value as
\* normalizing once, and empty and whitespace-only text is returned
\* unchanged.
C30_NormalizationIsIdempotent ==
    v_out.op = "_to_proper_case"
        => /\ ToProperCase(v_out.result) = v_out.result
           /\ (Strip(v_input.text) = <<>> => v_out.result = v_input.text)

\* ------------------------------------------------- identifiers of records

\* generate_device_id applied to what a stored record holds now.
DeviceIdOfRecord(rec) ==
    GenerateDeviceId([plant_id |-> rec.plant_id,
                      scientific_name |-> Some(rec.scientific_name),
                      name |-> Some(rec.name)])

IsBlank(t) == t # <<>> /\ Strip(t) = <<>>

\* The code of the first name of the form that is empty or blank.
FirstBlankNameCode(ui) ==
    IF Strip(ui.friendly_name) = <<>> THEN "friendly_name_required"
    ELSE IF Strip(ui.scientific_name) = <<>> THEN "scientific_name_required"
    ELSE "common_name_required"

\* C32: a form whose friendly, scientific or common name consists only of
\* whitespace is rejected by the create validator and by the reconfigure
\* validator with the *_required error of the first such name under
\* names_section.
C32_BlankNamesRejected ==
    (IsBlank(v_input.friendly_name) \/ IsBlank(v_input.scientific_name)
        \/ IsBlank(v_input.common_name))
        => /\ ValidatePlantConfiguration(v_input)
                = "names_section" :> FirstBlankNameCode(v_input)
           /\ ValidateConfigurePlantOptionsInput(ExtractSectionData(v_input))
                = "names_section" :> FirstBlankNameCode(v_input)

\* ------------------------------------------- diagnostics and credentials

\* The parent data with other credentials and everything else the same.
WithCredentials(data, client_id, secret) ==
    Dict([k \in DOMAIN data.v |->
            IF k = "client_id" THEN Str(client_id)
            ELSE IF k = "secret" THEN Str(secret) ELSE data.v[k]])

\* The credentials a user may have entered instead.
OtherCredentials == {<<"a">>, <<"b">>} \X {<<"s">>, <<"t">>}

\* C33: the diagnostics export of a parent entry is the export of the entry
\* that the credentials flow would have created for any other client_id and
\* secret, with the same image settings and plant records.
C33_DiagnosticsIndependentOfCredentials ==
    v_out.op = "async_get_config_entry_diagnostics"
        => \A cr \in OtherCredentials :
              LET other == WithCredentials(v_input.data, cr[1], cr[2])
              IN  AsyncGetConfigEntryDiagnostics(
                      ParentEntry(other, v_input.subentries),
                      IF v_input.loaded THEN Some(other) ELSE None)
                  = v_out.result

\* ------------------------------------------------ re-auth behind an abort

\* C34: at the step in which a wizard session ends Aborted(reauth_required),
\* a re-auth flow is in progress for the parent entry or a task that starts
\* one has been created.
C34_AbortedSessionHasReauth ==
    [][\A s \in Sessions :
          (flows[s].result # ReauthRequired /\ flows'[s].result = ReauthRequired)
              => (reauth_flows' > 0 \/ reauth_tasks' > 0)]_vars

\* C34 witness: a session that made no call was aborted by the guard of its
\* first step while a re-auth flow was in progress and no task was waiting.
C34_Witness ==
    /\ reauth_flows > 0
    /\ reauth_tasks = 0
    /\ \E s \in Sessions :
          /\ flows[s].result = ReauthRequired
          /\ api_log[s].auth_failed = "none"

\* ------------------------------------------------ reconfigure and re-auth

\* C35: a session started as reconfigure never ends Aborted(reauth_required),
\* and whenever it is at its form and its record is still stored, a valid
\* submission ends it Updated, also while a re-auth flow is in progress or a
\* task that starts one is waiting.
C35_ReconfigureIgnoresReauth ==
    \A s \in Sessions :
        flows[s].source = "reconfigure" =>
            /\ flows[s].result # ReauthRequired
            /\ (flows[s].step = "configure_plant_options"
                    /\ flows[s].subentry \in SubentryIds) =>
                  \A ui \in ReconfigureInputs :
                      ValidateConfigurePlantOptionsInput(ExtractSectionData(ui))
                          = EmptyDict
                      => StepConfigurePlantOptions(Ctx(flows[s]),
                                                   Some(ui)).f.result.reason
                             = "reconfigure_successful"

\* C35 witness: a reconfigure session has ended Updated and a re-auth flow
\* is in progress for the parent entry.
C35_Witness ==
    /\ IsReauthFlowInProgress
    /\ \E s \in Sessions :
          /\ flows[s].source = "reconfigure"
          /\ flows[s].result.reason = "reconfigure_successful"

\* ------------------------------------------------------ the two validators

\* C36: for the same submitted names, categories and range values the
\* validator of the create step and the validator of the reconfigure step
\* return the same dict: the same section with the same code, or no error.
C36_ValidatorsAgree ==
    /\ v_out.op = "_validate_plant_configuration"
          => v_out.errors
                = ValidateConfigurePlantOptionsInput(ExtractSectionData(v_input))
    /\ v_out.op = "_validate_configure_plant_options_input"
          => v_out.errors = ValidatePlantConfiguration(v_input)

\* C36 witness: the reconfigure validator has rejected a form whose names
\* and categories are given, for two dimensions whose minimum is not below
\* the maximum, with the error of the first of them.
C36_Witness ==
    /\ v_out.op = "_validate_configure_plant_options_input"
    /\ v_out.errors # EmptyDict
    /\ Cardinality({d \in DimSet :
            /\ v_input[MinField[d]] # None /\ v_input[MaxField[d]] # None
            /\ Val(v_input[MinField[d]]) >= Val(v_input[MaxField[d]])}) = 2
    /\ DOMAIN v_out.errors \subseteq {SectionOfDim[d] : d \in DimSet}
    /\ \A f \in RangeFieldSet : v_input[f] # None

\* ------------------------------------------- catalog and manual records

\* The record data is that of a catalog plant: its plant_id is the pid of
\* candidate cand and its plant_book_data holds every field of cand.
IsCatalogRecord(data, cand) ==
    /\ data.plant_id = Some(cand.pid)
    /\ "plant_book_data" \in DOMAIN data
    /\ \A k \in DOMAIN cand :
          k \in DOMAIN data.plant_book_data /\ data.plant_book_data[k] = cand[k]

\* The record data is that of a manual plant for form ui.
IsManualRecord(data, ui) ==
    /\ data.plant_id = Some(ToProperCase(ui.scientific_name))
    /\ "plant_book_data" \notin DOMAIN data
    /\ "entity_picture" \notin DOMAIN data

\* C37: a record created by a session with a selected candidate has the
\* candidate's pid as plant_id and the candidate's fields as plant_book_data;
\* a record created by a session without one has the normalized scientific
\* name as plant_id, no plant_book_data and no entity_picture; and choosing
\* manual entry, after a search without results or at the list of
\* candidates, leaves the session without a selected candidate.
C37_CatalogAndManualRecords ==
    \A s \in Sessions :
        /\ flows[s].step = "configure_plant" =>
              \A ui \in WizardInputs,
                 dout \in IF FetchesDetails(flows[s]) THEN DetailOutcomes ELSE {"ok"},
                 img \in IF MayDownloadImage(flows[s]) THEN ImageOutcomes ELSE {"ok"} :
                  LET c == StepConfigurePlant(Ctx(flows[s]), Some(ui), dout, img)
                  IN  c.create # None =>
                        IF flows[s].selected # None
                        THEN IsCatalogRecord(Val(c.create).data, Val(flows[s].selected))
                        ELSE IsManualRecord(Val(c.create).data, ui)
        /\ flows[s].step = "no_results_found" =>
              \A dout \in DetailOutcomes :
                  LET c == StepNoResultsFound(Ctx(flows[s]), "manual_entry", dout)
                  IN  c.f.step = "configure_plant" => c.f.selected = None
        /\ flows[s].step = "select_plant" =>
              \A dout \in DetailOutcomes :
                  LET c == StepSelectPlant(Ctx(flows[s]),
                                           [kind |-> "manual_entry", pid |-> <<>>], dout)
                  IN  c.f.step = "configure_plant" => c.f.selected = None

\* C37 witness: a manual record and a catalog record are stored, and a
\* session that was shown candidates is at the configuration form without a
\* selected candidate.
C37_Witness ==
    /\ \E i \in SubentryIds : IsManualRecord(subentries[i].data, subentries[i].data)
    /\ \E i \in SubentryIds : IsCatalogRecord(subentries[i].data, CandB)
    /\ \E s \in Sessions :
          /\ flows[s].step = "configure_plant"
          /\ flows[s].selected = None
          /\ flows[s].search_results # <<>>

\* ------------------------------------------------------- the runtime data

\* C38: hass.data holds the parent entry's data exactly while the entry is
\* loaded: it is there after setup, gone after an unload that returned True,
\* and still there after an unload that returned False.
C38_RuntimeDataWhileLoaded ==
    /\ hass_entry.state = "loaded" => hass_entry.data # None
    /\ hass_entry.state = "not_loaded" => hass_entry.data = None
    /\ hass_entry.state = "failed_unload" => hass_entry.data # None

\* ------------------------------------------------------- the options step

\* What the options step gives for one submitted form at an open options
\* form: with a re-auth flow in progress an abort for reauth_required and the
\* parent record as it was; with the download enabled and a directory that
\* cannot be made the form again with invalid_path under download_path and
\* the parent record as it was; otherwise the parent record with the two
\* submitted image settings and its other fields as they were.
OptionsStepOutcomeOk(ui, mkdir) ==
    LET r == OptionsStepInit(setup, entry_data, Some(ui), mkdir)
    IN  IF IsReauthFlowInProgress
        THEN /\ r.setup.result.type = "abort"
             /\ r.setup.result.reason = "reauth_required"
             /\ r.entry_data = entry_data
        ELSE IF ui.download_images /\ mkdir = "oserror"
        THEN /\ r.setup.result.type = "form"
             /\ r.setup.result.step_id = "init"
             /\ r.setup.result.errors = ("download_path" :> "invalid_path")
             /\ r.entry_data = entry_data
        ELSE /\ r.setup.result.type = "create_entry"
             /\ r.entry_data = [client_id |-> entry_data.client_id,
                                secret |-> entry_data.secret,
                                download_images |-> ui.download_images,
                                download_path |-> ui.download_path]

\* C39: the options step changes only download_images and download_path of
\* the parent record and no plant record; with a re-auth flow in progress it
\* aborts with reauth_required, and with the download enabled and a path that
\* cannot be created it shows the form again with a download_path error,
\* changing nothing in both cases.
C39_OptionsStepFrame ==
    [][(setup.source = "options" /\ setup.step = "init")
          => /\ \A ui \in ImageConfigForms, mkdir \in MkdirOutcomes :
                    OptionsStepOutcomeOk(ui, mkdir)
             /\ (setup' # setup
                    => /\ subentries' = subentries
                       /\ entry_data'.client_id = entry_data.client_id
                       /\ entry_data'.secret = entry_data.secret
                       /\ (setup'.result.type \in {"abort", "form"}
                             => entry_data' = entry_data))]_vars

\* An options session that stored new image settings beside plant records,
\* the credentials being those of the start.
C39_Witness ==
    /\ setup.source = "options"
    /\ setup.result.type = "create_entry"
    /\ entry_data.download_images = FALSE
    /\ entry_data.download_path = "/nowhere"
    /\ entry_data.client_id = <<"a">>
    /\ entry_data.secret = <<"s">>
    /\ Len(subentries) = 2
    /\ hass_entry.reload_pending

\* ------------------------------------------------------ the sensor platform

\* The ids of the plant records that have a device_id.
RecordsWithDeviceId == {i \in DOMAIN subentries : "device_id" \in DOMAIN subentries[i].data}

\* C40: in a loaded entry the sensor platform has made one registering call
\* per plant record with a device_id and no other: the call carries that
\* record's subentry id and exactly one sensor, whose unique id is the
\* device_id followed by _plant; a record without device_id has no call, and
\* with no plant records there is no call at all.
C40_OneSensorPerRecord ==
    hass_entry.state = "loaded" =>
        /\ Len(hass_entry.calls) = Cardinality(RecordsWithDeviceId)
        /\ \A i \in RecordsWithDeviceId :
              \E k \in 1..Len(hass_entry.calls) :
                  /\ hass_entry.calls[k].config_subentry_id = Some(i)
                  /\ Len(hass_entry.calls[k].entities) = 1
                  /\ hass_entry.calls[k].entities[1].unique_id =
                        subentries[i].data.device_id \o <<"_", "p", "l", "a", "n", "t">>
        /\ \A k \in 1..Len(hass_entry.calls) :
              \E i \in RecordsWithDeviceId :
                  hass_entry.calls[k].config_subentry_id = Some(i)
        /\ (subentries = <<>> => hass_entry.calls = <<>>)

\* A loaded entry whose first record has no device_id and whose second has:
\* the only call is the second record's.
C40_Witness ==
    /\ hass_entry.state = "loaded"
    /\ Len(subentries) = 2
    /\ "device_id" \notin DOMAIN subentries[1].data
    /\ Len(hass_entry.calls) = 1
    /\ hass_entry.calls[1].config_subentry_id = Some(2)
    /\ hass_entry.calls[1].entities[1].unique_id = <<"b", "_", "p", "l", "a", "n", "t">>

====
